---- MODULE Spec2Model ----
(***************************************************************************)
(* Model of the megamicros acquisition core (src/megamicros/core):         *)
(*   - MemsArray.Queue, the drop-oldest signal queue (base.py)             *)
(*   - the producer-thread lifecycle run / stop / wait / timer of the      *)
(*     four backends (base.py, h5.py, db.py, ws.py)                        *)
(*   - the remote-live websocket client loop (ws.py)                       *)
(*   - the MuH5 container writer (base.py)                                 *)
(* Each part has its own specification over the shared variables; the     *)
(* variables a specification does not use keep their initial value.       *)
(***************************************************************************)
EXTENDS Integers, Sequences, FiniteSets, TLC

\* ------------------------------------------------------------------------
\* Bounds of the model
\* ------------------------------------------------------------------------
MaxCap == 2         \* largest queue capacity (maxsize) explored
MaxFrames == 4      \* frames a numbered source produces
MaxRuns == 2        \* run() calls on one session
MaxClock == 3       \* seconds of wall clock, hence distinct file names
MaxWrites == 4      \* frames handed to the container writer
MaxFrameLength == 3 \* largest frame_length explored
MaxSamplingFrequency == 2  \* largest sampling frequency, in samples per second
MaxDatasetDuration == 2    \* largest dataset duration, in seconds
MaxFileDuration == 3       \* largest file duration, in seconds
MaxMems == 2        \* largest number of active microphones
MaxChannel == 2     \* largest microphone id (ids start at 0)
MaxAnalog == 1      \* largest analog channel id (ids start at 0)
MaxFiles == 2       \* files of the list to replay
MaxOpens == 3       \* file openings of one replay
MaxReplayDatasets == 2  \* datasets in a replayed file
MaxReplayLength == 3    \* samples in a dataset of a replayed file

\* Program constants
DEFAULT_QUEUE_SIZE == 2
NoDuration == -1    \* MemsArray.__duration is None

Threads == 1..MaxRuns
Backends == {"base", "h5", "db"}

Min(a, b) == IF a < b THEN a ELSE b

CeilDiv(a, b) == (a + b - 1) \div b

\* ------------------------------------------------------------------------
\* State
\* ------------------------------------------------------------------------
VARIABLES
    signal_q,        \* MemsArray.__signal_q : the queued frames, oldest first
    maxsize,         \* Queue.maxsize (0 = unbounded)
    transfert_lost,  \* Queue.__transfert_lost
    put_pc,          \* per producer thread: position inside Queue.put
    put_data,        \* per producer thread: argument of the put in progress
    produced,        \* number of put calls begun by the numbered source
    inserted,        \* number of numbered frames inserted so far (history)
    evicted,         \* numbered frames discarded by put (history)
    consumed,        \* numbered frames returned to the consumer (history)
    last_next,       \* result of the consumer's last __next__
    backend,         \* class of the session: MemsArray, MemsArrayH5, MemsArrayDB
    running,         \* MemsArray.__running
    duration,        \* MemsArray.__duration (NoDuration until set)
    runs,            \* number of run() calls that returned
    thr_pc,          \* per run: position of the producer thread it spawned
    handle,          \* MemsArray._async_transfer_thread (0 = None)
    thread_exception,\* MemsArray._async_transfer_thread_exception
    timer_pc,        \* per run: the Timer it armed
    thread_timer_flag,\* MemsArray._thread_timer_flag
    wait_result,     \* outcome of the last wait() call
    stop_called,     \* stop() was called since the last run() (history)
    thread_failed,   \* an exception was raised in a producer thread and
                     \* not yet re-raised by wait() (history)
    ws_in,           \* websocket: messages sent by the server, not yet received
    ws_out,          \* websocket: requests sent by the client, not yet handled
    ws_n,            \* number of frames of the remote acquisition
    srv_pc,          \* position of the remote server in the protocol
    srv_sent,        \* binary frames sent by the server
    halt_registered, \* __remote_run: halt_registered
    transfer_index,  \* __remote_run: transfer_index
    transfer_lost,   \* __remote_run: transfer_lost
    ws_outcome,      \* how the run coroutine ended (what it logged)
    ws_fault,        \* the server sent an error status / the socket failed (history)
    halt_rx,         \* frames received after the halt request was sent (history)
    rx_stopped,      \* frames received while the running flag was false (history)
    h5_started,      \* MemsArray.__h5_started
    h5_dataset_number,\* MemsArray.__h5_dataset_number : datasets per file
    h5_dataset_length,\* MemsArray.__h5_dataset_length : samples per dataset
    h5_buffer,       \* MemsArray.__h5_buffer : one row of the buffer, as sample numbers
    h5_buffer_index, \* MemsArray.__h5_buffer_index
    h5_dataset_index,\* MemsArray.__h5_dataset_index
    h5_current_file, \* name of MemsArray.__h5_current_file (0 = none)
    h5_files,        \* the file system: per file name, absent or its datasets in order
    h5_attrs,        \* per file name, the attributes of its root group
    clock,           \* wall clock, in seconds
    frame_length,    \* MemsArray.__frame_length
    sampling_frequency,\* MemsArray.__sampling_frequency
    frame_duration,  \* MemsArray.__frame_duration, as <<samples, samples per second>>
    h5_dataset_duration,\* MemsArray.__h5_dataset_duration
    h5_file_duration,\* MemsArray.__h5_file_duration
    mems_number,     \* number of active microphones
    counter,         \* MemsArray.__counter
    counter_skip,    \* MemsArray.__counter_skip
    status,          \* MemsArray.__status
    frames_written,  \* frames handed to __h5_write_mems so far (history)
    h5_flushed,      \* the datasets created so far, in order (history)
    h5_opened,       \* the file names opened by __h5_init_file, in order (history)
    h5_timestamp,    \* MemsArray.__h5_timestamp, in sample periods
    h5_ts,           \* the ts attributes of the datasets created so far, in order (history)
    available_mems,  \* MemsArray.__available_mems
    mems,            \* MemsArray.__mems : the active microphones, in activation order
    available_analogs,\* MemsArray.__available_analogs
    analogs,         \* MemsArray.__analogs
    datatype,        \* MemsArray.__datatype
    job,             \* MemsArray.__job
    h5_recording,    \* MemsArray.__h5_recording
    h5_pass_through, \* MemsArrayWS.__h5_pass_through
    background_mode, \* MemsArrayWS.__background_mode
    call_result,     \* how the last setter or run() call returned (history)
    frame_columns,   \* microphone ids of the rows of the last replayed buffer, in order
    files_number,    \* MemsArrayH5: number of files of the list to replay
    loop,            \* MemsArrayH5.__loop
    file_dataset_number, \* MemsArrayH5.__dataset_number : datasets in each file
    file_dataset_length, \* MemsArrayH5.__dataset_length : samples per dataset
    file_index,      \* __run_thread: position in the file list (for loop)
    dataset_index,   \* __run_thread: dataset_index (next dataset to open)
    dataset_loaded,  \* __run_thread: number of the dataset held by transfer_buffer
    dataset_index_ptr,\* __run_thread: dataset_index_ptr
    file_endeed,     \* __run_thread: file_endeed
    opened_files,    \* positions of the files opened so far, in order (history)
    frames_log,      \* content of the frames handed to put, in order (history)
    h5_rows,         \* channels of the rows last handed to __h5_write_mems
    req_settings,    \* settings of the run command sent to the server
    srv_settings,    \* settings the server reported in its acknowledgment (history)
    db_start,        \* MemsArrayDB.__start
    db_file_duration, \* MemsArrayDB.file_duration : duration of the source file
    bmf,             \* Beamformer: parameters and matrices built by init()
    bmf_source,      \* grid location of the source of the last signal (history)
    BFE,             \* Beamformer.beamform: energies last returned
    start_sample,    \* MemsArrayH5.start_time, as a number of samples of the file
    db_content_length, \* content-length of the response of the database (history)
    db_chunks,       \* chunks of the response not yet delivered by iter_content
    queues,          \* the Queue objects: of the class (0), of each session
    sessions,        \* per session: its queue, its producer inside put, its consumer
    discards         \* frames removed by put: queue, session putting, frame (history)

qvars == <<signal_q, maxsize, transfert_lost, put_pc, put_data,
           produced, inserted, evicted, consumed, last_next>>

rvars == <<backend, running, duration, runs, thr_pc, handle, thread_exception,
           timer_pc, thread_timer_flag, wait_result, stop_called, thread_failed>>

wsvars == <<ws_in, ws_out, ws_n, srv_pc, srv_sent, halt_registered, transfer_index,
            transfer_lost, ws_outcome, ws_fault, halt_rx, rx_stopped>>

wrvars == <<h5_started, h5_dataset_number, h5_dataset_length, h5_buffer, h5_buffer_index,
           h5_dataset_index, h5_current_file, h5_files, h5_attrs, clock, frame_length,
           sampling_frequency, h5_dataset_duration, h5_file_duration, mems_number,
           counter, counter_skip, status, frames_written, h5_flushed, h5_opened,
           h5_timestamp, h5_ts, frame_duration>>

svars == <<available_mems, mems, available_analogs, analogs, datatype, job,
          h5_recording, h5_pass_through, background_mode, call_result, frame_columns>>

pvars == <<files_number, loop, file_dataset_number, file_dataset_length, file_index,
          dataset_index, dataset_loaded, dataset_index_ptr, file_endeed, opened_files,
          frames_log>>

bvars == <<bmf, bmf_source, BFE>>

xvars == <<start_sample, db_content_length, db_chunks, queues, sessions, discards>>

fvars == <<h5_rows, req_settings, srv_settings, db_start, db_file_duration, bvars, xvars>>

vars == <<qvars, rvars, wsvars, wrvars, svars, pvars, fvars>>

\* ------------------------------------------------------------------------
\* MemsArray.Queue
\* ------------------------------------------------------------------------
\* queue.Queue.get as called by put (self.get()): removes the oldest frame
QueueGetNewest(q) == SubSeq(q, 1, Len(q) - 1)
QueueGet(q) == Tail(q)

\* the test of Queue.put: maxsize reached
QueueFull(q, m) == m > 0 /\ Len(q) >= m

\* queue.Queue.get returns the oldest frame
QueueFrontNewest(q) == q[Len(q)]
QueueFront(q) == Head(q)

\* queue.Queue.get( timeout ) raises Empty when the queue stayed empty
QueueEmptyLoose(q) == Len(q) <= 1
QueueEmpty(q) == Len(q) = 0

\* queue.Queue.put blocks while a bounded queue is full
QueueHasRoom(q, m) == m = 0 \/ Len(q) < m

\* Queue.put, first step: test of the occupation (qsize() takes the mutex
\* and releases it before self.get() is called)
PutBegin(t, data) ==
    /\ put_pc[t] = "idle"
    /\ put_data' = [put_data EXCEPT ![t] = data]
    /\ put_pc' = [put_pc EXCEPT ![t] =
                    IF QueueFull(signal_q, maxsize) THEN "evict" ELSE "insert"]
    /\ UNCHANGED <<signal_q, maxsize, transfert_lost, evicted, consumed, last_next>>

\* Queue.put, self.get(): a blocking get without timeout, then the counter
\* (the counter saturates at MaxFrames in the model)
PutEvict(t) ==
    /\ put_pc[t] = "evict"
    /\ Len(signal_q) > 0
    /\ signal_q' = QueueGet(signal_q)
    /\ evicted' = IF Head(signal_q) > 0 THEN evicted \cup {Head(signal_q)} ELSE evicted
    /\ transfert_lost' = Min(transfert_lost + 1, MaxFrames)
    /\ put_pc' = [put_pc EXCEPT ![t] = "insert"]
    /\ UNCHANGED <<maxsize, put_data, consumed, last_next>>

\* Queue.put, super().put( data )
PutInsert(t) ==
    /\ put_pc[t] = "insert"
    /\ QueueHasRoom(signal_q, maxsize)
    /\ signal_q' = Append(signal_q, put_data[t])
    /\ put_pc' = [put_pc EXCEPT ![t] = "idle"]
    /\ UNCHANGED <<maxsize, transfert_lost, put_data, evicted, consumed, last_next>>

\* MemsArray.__next__ : signal_q.get( timeout ) returned a frame
\* (only numbered frames are recorded in the history)
NextData ==
    /\ Len(signal_q) > 0
    /\ consumed' = IF QueueFront(signal_q) > 0
                   THEN Append(consumed, QueueFront(signal_q)) ELSE consumed
    /\ signal_q' = Tail(signal_q)
    /\ last_next' = "data"
    /\ UNCHANGED <<maxsize, transfert_lost, put_pc, put_data, produced, inserted, evicted>>

\* MemsArray.__next__ : the timeout elapsed on an empty queue (StopIteration)
NextStop ==
    /\ QueueEmpty(signal_q)
    /\ last_next' = "stop"
    /\ UNCHANGED <<signal_q, maxsize, transfert_lost, put_pc, put_data,
                   produced, inserted, evicted, consumed>>

InitQ ==
    /\ signal_q = <<>>
    /\ transfert_lost = 0
    /\ put_pc = [t \in Threads |-> "idle"]
    /\ put_data = [t \in Threads |-> 0]
    /\ produced = 0
    /\ inserted = 0
    /\ evicted = {}
    /\ consumed = <<>>
    /\ last_next = "none"

InitR ==
    /\ running = FALSE
    /\ duration = NoDuration
    /\ runs = 0
    /\ thr_pc = [t \in Threads |-> "none"]
    /\ handle = 0
    /\ thread_exception = "None"
    /\ timer_pc = [t \in Threads |-> "none"]
    /\ thread_timer_flag = FALSE
    /\ wait_result = "none"
    /\ stop_called = FALSE
    /\ thread_failed = FALSE

InitW ==
    /\ ws_in = <<>>
    /\ ws_out = <<>>
    /\ srv_pc = "greet"
    /\ srv_sent = 0
    /\ halt_registered = FALSE
    /\ transfer_index = 0
    /\ transfer_lost = 0
    /\ ws_outcome = "none"
    /\ ws_fault = "none"
    /\ halt_rx = {}
    /\ rx_stopped = {}

\* recording not started; the recording parameters only matter to the
\* container writer
\* class attributes of MemsArray and MemsArrayWS
InitSState ==
    /\ available_mems = <<>>
    /\ mems = <<>>
    /\ available_analogs = <<>>
    /\ analogs = <<>>
    /\ datatype = "int32"
    /\ job = "run"
    /\ h5_pass_through = FALSE
    /\ background_mode = FALSE
    /\ call_result = "none"
    /\ frame_columns = <<>>

InitS ==
    /\ InitSState
    /\ h5_recording = FALSE

\* no file list, nothing replayed
InitPState ==
    /\ file_index = 0
    /\ dataset_index = 0
    /\ dataset_loaded = 0
    /\ dataset_index_ptr = 0
    /\ file_endeed = FALSE
    /\ opened_files = <<>>
    /\ frames_log = <<>>

InitP ==
    /\ InitPState
    /\ files_number = 0
    /\ loop = FALSE
    /\ file_dataset_number = 0
    /\ file_dataset_length = 0

FileNames == 1..MaxClock

NoAttrs == [created |-> FALSE, dataset_number |-> 0, dataset_length |-> 0,
            channels_number |-> 0, sampling_frequency |-> 0, duration |-> 0]

InitHState ==
    /\ h5_started = FALSE
    /\ h5_dataset_number = 0
    /\ h5_dataset_length = 0
    /\ h5_buffer = <<>>
    /\ h5_buffer_index = 0
    /\ h5_dataset_index = 0
    /\ h5_current_file = 0
    /\ h5_files = [n \in FileNames |-> <<>>]
    /\ h5_attrs = [n \in FileNames |-> NoAttrs]
    /\ clock = 1
    /\ frames_written = 0
    /\ h5_flushed = <<>>
    /\ h5_opened = <<>>
    /\ h5_timestamp = 0
    /\ h5_ts = <<>>

\* no frame written, no request sent
NoSettings == [sampling_frequency |-> 0, frame_length |-> 0]

\* Beamformer before init()
NoBmf == [ready |-> FALSE, mems_position |-> <<>>, locations |-> <<>>, D |-> <<>>,
          bw_range_start |-> 0, bw_range_end |-> 0, bw_length |-> 0]

InitB ==
    /\ bmf = NoBmf
    /\ bmf_source = 0
    /\ BFE = <<>>

\* no response of the database
NoContent == -1

\* replay from the start of the file, no request to the database
InitXState ==
    /\ start_sample = 0
    /\ db_content_length = NoContent
    /\ db_chunks = 0

\* one session: the sessions are not told apart
InitX ==
    /\ InitXState
    /\ queues = <<>>
    /\ sessions = <<>>
    /\ discards = {}

InitF ==
    /\ h5_rows = <<>>
    /\ req_settings = NoSettings
    /\ srv_settings = NoSettings
    /\ db_start = 0
    /\ db_file_duration = 0
    /\ InitB
    /\ InitX

InitH ==
    /\ InitHState
    /\ frame_length = 1
    /\ sampling_frequency = 1
    /\ h5_dataset_duration = 1
    /\ h5_file_duration = 1
    /\ mems_number = 1
    /\ counter = FALSE
    /\ counter_skip = FALSE
    /\ status = FALSE
    /\ frame_duration = <<frame_length, sampling_frequency>>

\* ------------------------------------------------------------------------
\* Specification of the queue: one producer pushing numbered frames, one
\* consumer iterating
\* ------------------------------------------------------------------------
InitQueue ==
    /\ InitH
    /\ InitS
    /\ InitP
    /\ InitQ
    /\ InitF
    /\ InitR
    /\ InitW
    /\ ws_n = 0
    /\ backend = "base"
    /\ maxsize \in 0..MaxCap

ProducerPut ==
    /\ produced < MaxFrames
    /\ PutBegin(1, produced + 1)
    /\ produced' = produced + 1
    /\ UNCHANGED <<inserted, rvars, wsvars>>
    /\ UNCHANGED <<wrvars, svars, pvars, fvars>>

ProducerEvict == PutEvict(1) /\ UNCHANGED <<produced, inserted, rvars, wsvars>>
    /\ UNCHANGED <<wrvars, svars, pvars, fvars>>

ProducerInsert ==
    /\ PutInsert(1)
    /\ inserted' = inserted + 1
    /\ UNCHANGED <<produced, rvars, wsvars>>
    /\ UNCHANGED <<wrvars, svars, pvars, fvars>>

ConsumerNext == (NextData \/ NextStop) /\ UNCHANGED <<rvars, wsvars>>
    /\ UNCHANGED <<wrvars, svars, pvars, fvars>>

NextQueue ==
    \/ ProducerPut
    \/ ProducerEvict
    \/ ProducerInsert
    \/ ConsumerNext

SpecQueue == InitQueue /\ [][NextQueue]_vars

\* ------------------------------------------------------------------------
\* Producer lifecycle: run / stop / wait / deadline timer / producer thread
\* of MemsArray (synthetic generator), MemsArrayH5 and MemsArrayDB
\* ------------------------------------------------------------------------
\* what the thread's exception handlers leave in
\* _async_transfer_thread_exception when the thread body raises:
\* MemsArray.__run_thread stores the exception; MemsArrayH5.__run_thread
\* re-raises it inside the thread; MemsArrayDB.__run_thread logs it (or
\* lets it escape the thread)
ThreadExceptionDropped(b, cur) == cur
ThreadException(b, cur) == IF b = "base" THEN "error" ELSE cur

\* run(): the settings are installed, the timer is started when a limited
\* duration is requested, then the thread is started (no test of a thread
\* already running).  MemsArrayH5.run sets the running flag itself.
Run(d) ==
    /\ runs < MaxRuns
    /\ duration' = d
    /\ runs' = runs + 1
    /\ running' = IF backend = "h5" THEN TRUE ELSE running
    /\ timer_pc' = [timer_pc EXCEPT ![runs + 1] = IF d > 0 THEN "armed" ELSE "none"]
    /\ thread_timer_flag' = IF d > 0 THEN TRUE ELSE thread_timer_flag
    /\ thr_pc' = [thr_pc EXCEPT ![runs + 1] = "spawned"]
    /\ handle' = runs + 1
    /\ stop_called' = FALSE
    /\ UNCHANGED <<thread_exception, wait_result, thread_failed, backend, qvars, wsvars>>
    /\ UNCHANGED <<wrvars, svars, pvars, fvars>>

\* stop(): clears the flag only if it is set
Stop ==
    /\ runs > 0
    /\ running' = IF running THEN FALSE ELSE running
    /\ stop_called' = TRUE
    /\ UNCHANGED <<backend, duration, runs, thr_pc, handle, thread_exception,
                   timer_pc, thread_timer_flag, wait_result, thread_failed, qvars, wsvars>>
    /\ UNCHANGED <<wrvars, svars, pvars, fvars>>

\* _run_endding(): the timer callback
TimerFire(t) ==
    /\ timer_pc[t] = "armed"
    /\ running' = FALSE
    /\ thread_timer_flag' = FALSE
    /\ timer_pc' = [timer_pc EXCEPT ![t] = "fired"]
    /\ UNCHANGED <<backend, duration, runs, thr_pc, handle, thread_exception,
                   wait_result, stop_called, thread_failed, qvars, wsvars>>
    /\ UNCHANGED <<wrvars, svars, pvars, fvars>>

\* wait(): joins the thread of the last run (returns once it has ended),
\* then re-raises the stored exception if any
Wait ==
    /\ runs > 0
    /\ IF handle = 0 THEN TRUE ELSE thr_pc[handle] = "done"
    /\ handle' = 0
    /\ wait_result' = IF thread_exception # "None" THEN "raised" ELSE "ok"
    /\ thread_exception' = "None"
    /\ thread_failed' = IF thread_exception # "None" THEN FALSE ELSE thread_failed
    /\ UNCHANGED <<backend, running, duration, runs, thr_pc, timer_pc,
                   thread_timer_flag, stop_called, qvars, wsvars>>
    /\ UNCHANGED <<wrvars, svars, pvars, fvars>>

\* first statements of the thread: MemsArray.__run_thread sets the flag;
\* MemsArrayH5.__run_thread goes to its loop; MemsArrayDB.__run_thread
\* sets the flag once the request is answered
ThreadStart(t) ==
    /\ thr_pc[t] = "spawned"
    /\ thr_pc' = [thr_pc EXCEPT ![t] = "loop"]
    /\ running' = IF backend = "h5" THEN running ELSE TRUE
    /\ UNCHANGED <<backend, duration, runs, handle, thread_exception, timer_pc,
                   thread_timer_flag, wait_result, stop_called, thread_failed, qvars, wsvars>>
    /\ UNCHANGED <<wrvars, svars, pvars, fvars>>

\* MemsArrayDB.__run_thread: the range test or the request fails before
\* the flag is set
ThreadStartFail(t) ==
    /\ thr_pc[t] = "spawned"
    /\ backend = "db"
    /\ thr_pc' = [thr_pc EXCEPT ![t] = "done"]
    /\ thread_exception' = ThreadException(backend, thread_exception)
    /\ thread_failed' = TRUE
    /\ UNCHANGED <<backend, running, duration, runs, handle, timer_pc,
                   thread_timer_flag, wait_result, stop_called, qvars, wsvars>>
    /\ UNCHANGED <<wrvars, svars, pvars, fvars>>

\* loop test: while self.running (base, h5); next chunk of the response (db)
LoopExit(t) ==
    /\ thr_pc[t] = "loop"
    /\ backend = "db" \/ ~running
    /\ thr_pc' = [thr_pc EXCEPT ![t] = "done"]
    /\ UNCHANGED <<backend, running, duration, runs, handle, thread_exception, timer_pc,
                   thread_timer_flag, wait_result, stop_called, thread_failed, qvars, wsvars>>
    /\ UNCHANGED <<wrvars, svars, pvars, fvars>>

\* loop body: a frame is built and handed to signal_q.put
LoopPut(t) ==
    /\ thr_pc[t] = "loop"
    /\ backend = "db" \/ running
    /\ PutBegin(t, 0)
    /\ thr_pc' = [thr_pc EXCEPT ![t] = "put"]
    /\ UNCHANGED <<backend, running, duration, runs, handle, thread_exception, timer_pc,
                   thread_timer_flag, wait_result, stop_called, thread_failed,
                   produced, inserted, wsvars>>
    /\ UNCHANGED <<wrvars, svars, pvars, fvars>>

\* loop body: building or processing the frame raises
LoopRaise(t) ==
    /\ thr_pc[t] = "loop"
    /\ backend = "db" \/ running
    /\ thr_pc' = [thr_pc EXCEPT ![t] = "done"]
    /\ thread_exception' = ThreadException(backend, thread_exception)
    /\ thread_failed' = TRUE
    /\ UNCHANGED <<backend, running, duration, runs, handle, timer_pc,
                   thread_timer_flag, wait_result, stop_called, qvars, wsvars>>
    /\ UNCHANGED <<wrvars, svars, pvars, fvars>>

ThreadEvict(t) ==
    /\ thr_pc[t] = "put"
    /\ PutEvict(t)
    /\ UNCHANGED <<produced, inserted, rvars, wsvars>>
    /\ UNCHANGED <<wrvars, svars, pvars, fvars>>

\* end of put; MemsArrayDB tests the flag after each chunk
ThreadInsert(t) ==
    /\ thr_pc[t] = "put"
    /\ PutInsert(t)
    /\ thr_pc' = [thr_pc EXCEPT ![t] =
                    IF backend = "db" /\ ~running THEN "done" ELSE "loop"]
    /\ UNCHANGED <<backend, running, duration, runs, handle, thread_exception, timer_pc,
                   thread_timer_flag, wait_result, stop_called, thread_failed,
                   produced, inserted, wsvars>>
    /\ UNCHANGED <<wrvars, svars, pvars, fvars>>

ThreadStep(t) ==
    \/ ThreadStart(t)
    \/ ThreadStartFail(t)
    \/ LoopExit(t)
    \/ LoopPut(t)
    \/ LoopRaise(t)
    \/ ThreadEvict(t)
    \/ ThreadInsert(t)

Consume == NextData /\ UNCHANGED <<rvars, wsvars>>
    /\ UNCHANGED <<wrvars, svars, pvars, fvars>>

Init ==
    /\ InitH
    /\ InitS
    /\ InitP
    /\ InitQ
    /\ InitF
    /\ InitR
    /\ InitW
    /\ ws_n = 0
    /\ backend \in Backends
    /\ maxsize = DEFAULT_QUEUE_SIZE

Next ==
    \/ \E d \in {0, 1} : Run(d)
    \/ Stop
    \/ Wait
    \/ \E t \in Threads : TimerFire(t)
    \/ \E t \in Threads : ThreadStep(t)
    \/ Consume

Spec == Init /\ [][Next]_vars

\* the scheduler runs every started thread, and an armed timer fires
FairSpec ==
    /\ Spec
    /\ \A t \in Threads : WF_vars(ThreadStep(t))
    /\ \A t \in Threads : WF_vars(TimerFire(t))

\* ------------------------------------------------------------------------
\* Remote-live backend: MemsArrayWS.run / __run_thread / __run /
\* __remote_run (job 'run') against a remote server following the
\* acquisition protocol.  The producer thread is thread 1.
\* ------------------------------------------------------------------------
MaxWsFrames == 2    \* bound: frames of the remote acquisition

StatusMsg(resp, req) == [type |-> "status", response |-> resp, request |-> req, id |-> 0]
BinMsg(k) == [type |-> "bin", response |-> "", request |-> "", id |-> k]

\* __check_mbs_error
check_mbs_error(m) == m.type = "status" /\ m.response = "error"

\* __remote_run: what a received message does to the listening loop
WsClassify(m) ==
    IF m.type = "bin" THEN "data"
    ELSE IF check_mbs_error(m) THEN "error"
    ELSE IF m.type = "status" /\ m.response = "completed" THEN "completed"
    ELSE IF m.request = "halt" /\ m.type = "status"
         THEN (IF m.response = "ok" THEN "halted" ELSE "error")
    ELSE "error"

\* __remote_run: a binary frame is queued only while the flag is set
WsFrameQueuedInverted(r) == ~r
WsFrameQueuedAlways(r) == TRUE
WsFrameQueued(r) == r

\* the coroutine ends: every exception is caught and logged by __remote_run
\* or __run, so __run_thread has nothing to store
WsEnd(outcome) ==
    /\ thr_pc' = [thr_pc EXCEPT ![1] = "done"]
    /\ ws_outcome' = outcome
    /\ thread_exception' = thread_exception
    /\ thread_failed' = IF outcome \in {"error", "neterror"} THEN TRUE ELSE thread_failed

\* MemsArrayWS.run (job 'run'): no timer, the thread is started
WsRun(d) ==
    /\ runs = 0
    /\ duration' = d
    /\ runs' = 1
    /\ thr_pc' = [thr_pc EXCEPT ![1] = "spawned"]
    /\ handle' = 1
    /\ stop_called' = FALSE
    /\ UNCHANGED <<running, timer_pc, thread_timer_flag, thread_exception, wait_result,
                   thread_failed, backend, qvars, wsvars>>
    /\ UNCHANGED <<wrvars, svars, pvars, fvars>>

\* __run: websockets.connect
WsConnect ==
    /\ thr_pc[1] = "spawned"
    /\ thr_pc' = [thr_pc EXCEPT ![1] = "greeting"]
    /\ UNCHANGED <<backend, running, duration, runs, handle, thread_exception, timer_pc,
                   thread_timer_flag, wait_result, stop_called, thread_failed, qvars, wsvars>>
    /\ UNCHANGED <<wrvars, svars, pvars, fvars>>

\* __run: the greeting is received and checked, the run command is sent
WsGreeting ==
    /\ thr_pc[1] = "greeting"
    /\ ws_in # <<>>
    /\ ws_in' = Tail(ws_in)
    /\ IF check_mbs_error(Head(ws_in))
       THEN /\ WsEnd("error")
            /\ UNCHANGED ws_out
       ELSE /\ ws_out' = Append(ws_out, "run")
            /\ thr_pc' = [thr_pc EXCEPT ![1] = "ack"]
            /\ UNCHANGED <<ws_outcome, thread_exception, thread_failed>>
    /\ UNCHANGED <<backend, running, duration, runs, handle, timer_pc, thread_timer_flag,
                   wait_result, stop_called, qvars, ws_n, srv_pc, srv_sent, halt_registered,
                   transfer_index, transfer_lost, ws_fault, halt_rx, rx_stopped>>
    /\ UNCHANGED <<wrvars, svars, pvars, fvars>>

\* __run: the answer to the run command is checked; __remote_run starts
\* and sets the running flag
WsAck ==
    /\ thr_pc[1] = "ack"
    /\ ws_in # <<>>
    /\ ws_in' = Tail(ws_in)
    /\ IF check_mbs_error(Head(ws_in))
       THEN /\ WsEnd("error")
            /\ UNCHANGED running
       ELSE /\ running' = TRUE
            /\ thr_pc' = [thr_pc EXCEPT ![1] = "loop"]
            /\ UNCHANGED <<ws_outcome, thread_exception, thread_failed>>
    /\ UNCHANGED <<backend, duration, runs, handle, timer_pc, thread_timer_flag,
                   wait_result, stop_called, qvars, ws_out, ws_n, srv_pc, srv_sent,
                   halt_registered, transfer_index, transfer_lost, ws_fault, halt_rx,
                   rx_stopped>>
    /\ UNCHANGED <<wrvars, svars, pvars, fvars>>

\* sends the halt request whenever the flag is found cleared
HaltDueAgain(r, h) == r = FALSE

\* if self.running == False and halt_registered == False
HaltDue(r, h) == r = FALSE /\ h = FALSE

\* __remote_run, top of the loop: the halt request is sent once the flag
\* is found cleared, then the client waits for the next message
WsLoopTop ==
    /\ thr_pc[1] = "loop"
    /\ IF HaltDue(running, halt_registered)
       THEN /\ ws_out' = Append(ws_out, "halt")
            /\ halt_registered' = TRUE
       ELSE UNCHANGED <<ws_out, halt_registered>>
    /\ thr_pc' = [thr_pc EXCEPT ![1] = "recv"]
    /\ UNCHANGED <<backend, running, duration, runs, handle, thread_exception, timer_pc,
                   thread_timer_flag, wait_result, stop_called, thread_failed, qvars,
                   ws_in, ws_n, srv_pc, srv_sent, transfer_index, transfer_lost,
                   ws_outcome, ws_fault, halt_rx, rx_stopped>>
    /\ UNCHANGED <<wrvars, svars, pvars, fvars>>

\* __remote_run: a status message is received
WsRecvStatus ==
    /\ thr_pc[1] = "recv"
    /\ ws_in # <<>>
    /\ WsClassify(Head(ws_in)) # "data"
    /\ ws_in' = Tail(ws_in)
    /\ WsEnd(WsClassify(Head(ws_in)))
    /\ UNCHANGED <<backend, running, duration, runs, handle, timer_pc, thread_timer_flag,
                   wait_result, stop_called, qvars, ws_out, ws_n, srv_pc, srv_sent,
                   halt_registered, transfer_index, transfer_lost, ws_fault, halt_rx,
                   rx_stopped>>
    /\ UNCHANGED <<wrvars, svars, pvars, fvars>>

\* __remote_run: a binary frame is received; it is counted as lost when
\* the flag is cleared, else processed and handed to signal_q.put
WsRecvFrame ==
    /\ thr_pc[1] = "recv"
    /\ ws_in # <<>>
    /\ WsClassify(Head(ws_in)) = "data"
    /\ ws_in' = Tail(ws_in)
    /\ halt_rx' = IF halt_registered THEN halt_rx \cup {Head(ws_in).id} ELSE halt_rx
    /\ rx_stopped' = IF ~running THEN rx_stopped \cup {Head(ws_in).id} ELSE rx_stopped
    /\ IF WsFrameQueued(running)
       THEN /\ PutBegin(1, Head(ws_in).id)
            /\ thr_pc' = [thr_pc EXCEPT ![1] = "put"]
            /\ UNCHANGED transfer_lost
       ELSE /\ transfer_lost' = transfer_lost + 1
            /\ thr_pc' = [thr_pc EXCEPT ![1] = "loop"]
            /\ UNCHANGED qvars
    /\ UNCHANGED <<backend, running, duration, runs, handle, thread_exception, timer_pc,
                   thread_timer_flag, wait_result, stop_called, thread_failed,
                   produced, inserted, ws_out, ws_n, srv_pc, srv_sent, halt_registered,
                   transfer_index, ws_outcome, ws_fault>>
    /\ UNCHANGED <<wrvars, svars, pvars, fvars>>

WsPutEvict ==
    /\ thr_pc[1] = "put"
    /\ PutEvict(1)
    /\ UNCHANGED <<produced, inserted, rvars, wsvars>>
    /\ UNCHANGED <<wrvars, svars, pvars, fvars>>

\* end of put, then the transfers counter
WsPutInsert ==
    /\ thr_pc[1] = "put"
    /\ PutInsert(1)
    /\ inserted' = inserted + 1
    /\ transfer_index' = transfer_index + 1
    /\ thr_pc' = [thr_pc EXCEPT ![1] = "loop"]
    /\ UNCHANGED <<backend, running, duration, runs, handle, thread_exception, timer_pc,
                   thread_timer_flag, wait_result, stop_called, thread_failed, produced,
                   ws_in, ws_out, ws_n, srv_pc, srv_sent, halt_registered, transfer_lost,
                   ws_outcome, ws_fault, halt_rx, rx_stopped>>
    /\ UNCHANGED <<wrvars, svars, pvars, fvars>>

\* the socket fails while the client waits for a message
WsNetError ==
    /\ thr_pc[1] \in {"greeting", "ack", "recv"}
    /\ WsEnd("neterror")
    /\ ws_fault' = "net"
    /\ UNCHANGED <<backend, running, duration, runs, handle, timer_pc, thread_timer_flag,
                   wait_result, stop_called, qvars, ws_in, ws_out, ws_n, srv_pc, srv_sent,
                   halt_registered, transfer_index, transfer_lost, halt_rx, rx_stopped>>
    /\ UNCHANGED <<wrvars, svars, pvars, fvars>>

\* __remote_run: a binary frame is received with the flag set and its
\* processing raises (_run_process_data_bint32: container write failure);
\* the exception is caught and logged by the loop
WsProcessRaise ==
    /\ thr_pc[1] = "recv"
    /\ ws_in # <<>>
    /\ WsClassify(Head(ws_in)) = "data"
    /\ WsFrameQueued(running)
    /\ ws_in' = Tail(ws_in)
    /\ WsEnd("error")
    /\ ws_fault' = "process"
    /\ UNCHANGED <<backend, running, duration, runs, handle, timer_pc, thread_timer_flag,
                   wait_result, stop_called, qvars, ws_out, ws_n, srv_pc, srv_sent,
                   halt_registered, transfer_index, transfer_lost, halt_rx, rx_stopped,
                   wrvars, svars, pvars, fvars>>

WsThreadStep ==
    \/ WsConnect
    \/ WsGreeting
    \/ WsAck
    \/ WsLoopTop
    \/ WsRecvStatus
    \/ WsRecvFrame
    \/ WsPutEvict
    \/ WsPutInsert

\* ---- the remote server -------------------------------------------------
SrvSend(m, pc) ==
    /\ ws_in' = Append(ws_in, m)
    /\ srv_pc' = pc
    /\ ws_fault' = IF check_mbs_error(m)
                   THEN (IF srv_pc = "stream" THEN "run_error" ELSE "start_error")
                   ELSE ws_fault

\* greeting sent on connection
SrvGreet ==
    /\ srv_pc = "greet"
    /\ thr_pc[1] = "greeting"
    /\ \/ SrvSend(StatusMsg("ok", ""), "wait_run")
       \/ SrvSend(StatusMsg("error", ""), "stopped")
    /\ UNCHANGED <<qvars, rvars, ws_out, ws_n, srv_sent, halt_registered, transfer_index,
                   transfer_lost, ws_outcome, halt_rx, rx_stopped>>
    /\ UNCHANGED <<wrvars, svars, pvars, fvars>>

\* answer to the run command
SrvRunAck ==
    /\ srv_pc = "wait_run"
    /\ ws_out # <<>> /\ Head(ws_out) = "run"
    /\ ws_out' = Tail(ws_out)
    /\ \/ SrvSend(StatusMsg("ok", "run"), "stream")
       \/ SrvSend(StatusMsg("error", "run"), "stopped")
    /\ UNCHANGED <<qvars, rvars, ws_n, srv_sent, halt_registered, transfer_index,
                   transfer_lost, ws_outcome, halt_rx, rx_stopped>>
    /\ UNCHANGED <<wrvars, svars, pvars, fvars>>

\* next binary frame of the acquisition
SrvFrame ==
    /\ srv_pc = "stream"
    /\ srv_sent < ws_n
    /\ srv_sent' = srv_sent + 1
    /\ SrvSend(BinMsg(srv_sent + 1), "stream")
    /\ UNCHANGED <<qvars, rvars, ws_out, ws_n, halt_registered, transfer_index,
                   transfer_lost, ws_outcome, halt_rx, rx_stopped>>
    /\ UNCHANGED <<wrvars, svars, pvars, fvars>>

\* end of the acquisition
SrvCompleted ==
    /\ srv_pc = "stream"
    /\ srv_sent = ws_n
    /\ SrvSend(StatusMsg("completed", ""), "stopped")
    /\ UNCHANGED <<qvars, rvars, ws_out, ws_n, srv_sent, halt_registered, transfer_index,
                   transfer_lost, ws_outcome, halt_rx, rx_stopped>>
    /\ UNCHANGED <<wrvars, svars, pvars, fvars>>

\* the acquisition fails on the server
SrvError ==
    /\ srv_pc = "stream"
    /\ SrvSend(StatusMsg("error", ""), "stopped")
    /\ UNCHANGED <<qvars, rvars, ws_out, ws_n, srv_sent, halt_registered, transfer_index,
                   transfer_lost, ws_outcome, halt_rx, rx_stopped>>
    /\ UNCHANGED <<wrvars, svars, pvars, fvars>>

\* the halt request is handled: acknowledgment, or end of service
SrvHalt ==
    /\ srv_pc = "stream"
    /\ ws_out # <<>> /\ Head(ws_out) = "halt"
    /\ ws_out' = Tail(ws_out)
    /\ \/ SrvSend(StatusMsg("ok", "halt"), "stopped")
       \/ SrvSend(StatusMsg("completed", ""), "stopped")
    /\ UNCHANGED <<qvars, rvars, ws_n, srv_sent, halt_registered, transfer_index,
                   transfer_lost, ws_outcome, halt_rx, rx_stopped>>
    /\ UNCHANGED <<wrvars, svars, pvars, fvars>>

ServerStep ==
    \/ SrvGreet
    \/ SrvRunAck
    \/ SrvFrame
    \/ SrvCompleted
    \/ SrvError
    \/ SrvHalt

InitWS ==
    /\ InitH
    /\ InitS
    /\ InitP
    /\ InitQ
    /\ InitF
    /\ InitR
    /\ InitW
    /\ ws_n \in 0..MaxWsFrames
    /\ backend = "ws"
    /\ maxsize \in {0, 1, DEFAULT_QUEUE_SIZE}

NextWS ==
    \/ \E d \in {0, 1} : WsRun(d)
    \/ Stop
    \/ Wait
    \/ WsThreadStep
    \/ WsNetError
    \/ WsProcessRaise
    \/ ServerStep
    \/ Consume

SpecWS == InitWS /\ [][NextWS]_vars

\* the scheduler runs the client thread whenever it has a step to take;
\* nothing is assumed of the server or of the network
FairSpecWS ==
    /\ SpecWS
    /\ WF_vars(WsThreadStep)

\* ------------------------------------------------------------------------
\* Container writer: h5_start / h5_stop / __h5_init / __h5_close /
\* __h5_init_file / __h5_write_mems, for one recording.  The signal is
\* numbered sample by sample (frame k holds samples (k-1)*L+1 .. k*L); the
\* rows of the buffer all carry the same sample numbers, so one row is
\* kept.  The session has no analog channel.
\* ------------------------------------------------------------------------
BoolInt(b) == IF b THEN 1 ELSE 0

\* MemsArray.channels_number
channels_number(m, c, cs, st) == m + BoolInt(c /\ ~cs) + BoolInt(st)

\* numpy slice assignment buf[at : at+len(sig)] = sig
BufferCopy(buf, at, sig) ==
    [i \in 1..Len(buf) |-> IF at < i /\ i <= at + Len(sig) THEN sig[i - at] ELSE buf[i]]

\* the frame written after k earlier frames
SignalFrame(k, L) == [i \in 1..L |-> k * L + i]

\* __h5_init_file: attributes of the root group of a new file
RootAttrs(D) ==
    [created |-> TRUE, dataset_number |-> 0, dataset_length |-> D,
     channels_number |-> channels_number(mems_number, counter, counter_skip, status)
                           - BoolInt(counter /\ counter_skip),
     sampling_frequency |-> sampling_frequency, duration |-> 0]

\* __h5_write_mems: the buffer is saved when the frame reaches its end
FrameFitsLoose(idx, L, D) == idx + L <= D
FrameFits(idx, L, D) == idx + L < D

\* h5_start, __h5_init and the first __h5_init_file, on the state of the
\* writer.  Time is counted in sample periods from the first sample of the
\* signal, and a frame is processed when its last sample has been acquired.
H5StartBody ==
    /\ h5_recording
    /\ ~h5_started
    /\ h5_current_file = 0
    /\ h5_dataset_number' = h5_file_duration \div h5_dataset_duration
    /\ h5_dataset_length' = h5_dataset_duration * sampling_frequency
    /\ h5_buffer' = [i \in 1..(h5_dataset_duration * sampling_frequency) |-> 0]
    /\ h5_buffer_index' = 0
    /\ h5_current_file' = clock
    /\ h5_files' = [h5_files EXCEPT ![clock] = <<>>]
    /\ h5_attrs' = [h5_attrs EXCEPT ![clock] = RootAttrs(h5_dataset_duration * sampling_frequency)]
    /\ h5_dataset_index' = 0
    /\ h5_started' = TRUE
    /\ h5_opened' = Append(h5_opened, clock)
    /\ h5_timestamp' = frames_written * frame_length
    /\ UNCHANGED <<clock, frame_length, sampling_frequency, h5_dataset_duration,
                   h5_file_duration, mems_number, counter, counter_skip, status,
                   frames_written, h5_flushed, h5_ts, frame_duration>>

H5Start == H5StartBody /\ UNCHANGED <<qvars, rvars, wsvars, svars, pvars, fvars>>

\* __h5_write_mems on the next frame of the signal, on the state of the
\* writer; the timestamp of the frame is the time of its first sample
H5WriteMemsBody ==
    /\ frames_written < MaxWrites
    /\ frames_written' = frames_written + 1
    /\ LET signal == SignalFrame(frames_written, frame_length)
           timestamp == frames_written * frame_length
           now    == (frames_written + 1) * frame_length
           transf == h5_dataset_length - h5_buffer_index
           full   == BufferCopy(h5_buffer, h5_buffer_index, SubSeq(signal, 1, transf))
           rotate == h5_dataset_index >= h5_dataset_number
           file   == IF rotate THEN clock ELSE h5_current_file
           files0 == IF rotate THEN [h5_files EXCEPT ![clock] = <<>>] ELSE h5_files
           attrs0 == IF rotate THEN [h5_attrs EXCEPT ![clock] = RootAttrs(h5_dataset_length)]
                     ELSE h5_attrs
           index0 == IF rotate THEN 0 ELSE h5_dataset_index
       IN  IF FrameFits(h5_buffer_index, frame_length, h5_dataset_length)
           THEN /\ h5_buffer' = BufferCopy(h5_buffer, h5_buffer_index, signal)
                /\ h5_buffer_index' = h5_buffer_index + frame_length
                /\ h5_timestamp' = IF h5_buffer_index = 0 THEN timestamp ELSE h5_timestamp
                /\ UNCHANGED <<h5_files, h5_attrs, h5_dataset_index, h5_current_file,
                               h5_flushed, h5_opened, h5_ts>>
           ELSE /\ h5_current_file' = file
                /\ h5_files' = [files0 EXCEPT ![file] = Append(@, full)]
                /\ h5_dataset_index' = index0 + 1
                /\ h5_attrs' = [attrs0 EXCEPT ![file].dataset_number = index0 + 1,
                                              ![file].duration = (index0 + 1) * h5_dataset_duration]
                /\ h5_buffer' = BufferCopy(full, 0, SubSeq(signal, transf + 1, frame_length))
                /\ h5_buffer_index' = frame_length - transf
                /\ h5_flushed' = Append(h5_flushed, full)
                /\ h5_opened' = IF rotate THEN Append(h5_opened, clock) ELSE h5_opened
                /\ h5_ts' = Append(h5_ts, IF rotate THEN now ELSE h5_timestamp)
                /\ h5_timestamp' = timestamp + transf
    /\ UNCHANGED <<h5_started, h5_dataset_number, h5_dataset_length, clock, frame_length,
                   sampling_frequency, h5_dataset_duration, h5_file_duration, mems_number,
                   counter, counter_skip, status, frame_duration>>

H5WriteMems ==
    /\ h5_started
    /\ H5WriteMemsBody
    /\ UNCHANGED <<qvars, rvars, wsvars, svars, pvars, fvars>>

\* h5_stop and __h5_close: the current file is closed as it is
H5Stop ==
    /\ h5_recording
    /\ h5_started
    /\ h5_started' = FALSE
    /\ UNCHANGED <<h5_dataset_number, h5_dataset_length, h5_buffer, h5_buffer_index,
                   h5_dataset_index, h5_current_file, h5_files, h5_attrs, clock,
                   frame_length, sampling_frequency, h5_dataset_duration, h5_file_duration,
                   mems_number, counter, counter_skip, status, frames_written,
                   h5_flushed, h5_opened, h5_timestamp, h5_ts, frame_duration,
                   qvars, rvars, wsvars, svars, pvars, fvars>>

\* a second of wall clock passes
Tick ==
    /\ clock < MaxClock
    /\ clock' = clock + 1
    /\ UNCHANGED <<h5_started, h5_dataset_number, h5_dataset_length, h5_buffer,
                   h5_buffer_index, h5_dataset_index, h5_current_file, h5_files, h5_attrs,
                   frame_length, sampling_frequency, h5_dataset_duration, h5_file_duration,
                   mems_number, counter, counter_skip, status, frames_written,
                   h5_flushed, h5_opened, h5_timestamp, h5_ts, frame_duration,
                   qvars, rvars, wsvars, svars, pvars, fvars>>

InitWriter ==
    /\ InitQ
    /\ InitF
    /\ InitR
    /\ InitW
    /\ ws_n = 0
    /\ backend = "base"
    /\ maxsize = DEFAULT_QUEUE_SIZE
    /\ InitHState
    /\ InitSState
    /\ h5_recording = TRUE
    /\ InitP
    /\ sampling_frequency \in 1..MaxSamplingFrequency
    /\ h5_dataset_duration \in 1..MaxDatasetDuration
    /\ h5_file_duration \in 1..MaxFileDuration
    /\ frame_length \in 1..MaxFrameLength
    /\ frame_length <= h5_dataset_duration * sampling_frequency
    /\ mems_number \in 1..MaxMems
    /\ counter \in BOOLEAN
    /\ counter_skip \in BOOLEAN
    /\ status \in BOOLEAN
    /\ frame_duration = <<frame_length, sampling_frequency>>

NextWriter ==
    \/ H5Start
    \/ H5WriteMems
    \/ H5Stop
    \/ Tick

SpecWriter == InitWriter /\ [][NextWriter]_vars

\* ------------------------------------------------------------------------
\* Settings: the channel setters, and run() as a whole (settings loading,
\* checks, timer and thread start) for every backend.  Channel lists are
\* lists without repetition.
\* ------------------------------------------------------------------------
SettingsBackends == Backends \cup {"ws"}

RangeOf(l) == {l[i] : i \in 1..Len(l)}

ListsOver(S) ==
    UNION {{l \in [1..n -> S] : \A i, j \in 1..n : i # j => l[i] # l[j]}
             : n \in 0..Cardinality(S)}

MemLists == ListsOver(0..MaxChannel)
AnalogLists == ListsOver(0..MaxAnalog)

\* [i for i in range( n )]
RangeList(n) == [i \in 1..n |-> i - 1]

MaxOf(l) == CHOOSE x \in RangeOf(l) : \A y \in RangeOf(l) : y <= x

\* setAvailableMems / setAvailableAnalogs: the active channels are dropped
\* when the largest active id is not below the number of available channels
DeactivatedMembership(active, avail) ==
    IF RangeOf(active) \subseteq RangeOf(avail) THEN active ELSE <<>>
Deactivated(active, avail) ==
    IF Len(active) > 0 /\ MaxOf(active) >= Len(avail) THEN <<>> ELSE active

\* setActiveMems / setActiveAnalogs: the outcome of activating list l
ActivateRaises(l, avail) ==
    /\ Len(l) # 0
    /\ \/ Len(avail) = 0
       \/ ~(RangeOf(l) \subseteq RangeOf(avail))

\* setAvailableMems with a number or with a list
setAvailableMems(avail) ==
    /\ available_mems' = avail
    /\ mems' = Deactivated(mems, avail)
    /\ call_result' = "ok"
    /\ UNCHANGED <<available_analogs, analogs, datatype, job, h5_recording,
                   h5_pass_through, background_mode, frame_columns, qvars, rvars, wsvars,
                   wrvars, pvars, fvars>>

\* setActiveMems
setActiveMems(l) ==
    /\ IF ActivateRaises(l, available_mems)
       THEN /\ call_result' = "raised"
            /\ UNCHANGED mems
       ELSE /\ call_result' = "ok"
            /\ mems' = l
    /\ UNCHANGED <<available_mems, available_analogs, analogs, datatype, job, h5_recording,
                   h5_pass_through, background_mode, frame_columns, qvars, rvars, wsvars,
                   wrvars, pvars, fvars>>

\* setAvailableAnalogs with a number or with a list
setAvailableAnalogs(avail) ==
    /\ available_analogs' = avail
    /\ analogs' = Deactivated(analogs, avail)
    /\ call_result' = "ok"
    /\ UNCHANGED <<available_mems, mems, datatype, job, h5_recording,
                   h5_pass_through, background_mode, frame_columns, qvars, rvars, wsvars,
                   wrvars, pvars, fvars>>

\* setActiveAnalogs
setActiveAnalogs(l) ==
    /\ IF ActivateRaises(l, available_analogs)
       THEN /\ call_result' = "raised"
            /\ UNCHANGED analogs
       ELSE /\ call_result' = "ok"
            /\ analogs' = l
    /\ UNCHANGED <<available_mems, mems, available_analogs, datatype, job, h5_recording,
                   h5_pass_through, background_mode, frame_columns, qvars, rvars, wsvars,
                   wrvars, pvars, fvars>>

\* file replay, for a file whose microphones are file_mems: the active
\* microphones are set again on the microphones of the file, then the
\* rows of each dataset are selected with a boolean mask over the
\* microphones of the file
MaskedRows(avail, active) == SelectSeq(avail, LAMBDA x : x \in RangeOf(active))

ReplayMask(file_mems) ==
    /\ available_mems' = file_mems
    /\ IF ActivateRaises(mems, file_mems)
       THEN /\ mems' = <<>>
            /\ call_result' = "raised"
            /\ UNCHANGED frame_columns
       ELSE /\ mems' = mems
            /\ call_result' = "ok"
            /\ frame_columns' = MaskedRows(file_mems, mems)
    /\ UNCHANGED <<available_analogs, analogs, datatype, job, h5_recording,
                   h5_pass_through, background_mode, qvars, rvars, wsvars, wrvars, pvars, fvars>>

InitChannels ==
    /\ InitQ
    /\ InitF
    /\ InitR
    /\ InitW
    /\ InitH
    /\ InitS
    /\ InitP
    /\ ws_n = 0
    /\ backend = "h5"
    /\ maxsize = DEFAULT_QUEUE_SIZE

NextChannels ==
    \/ \E n \in 0..(MaxChannel + 1) : setAvailableMems(RangeList(n))
    \/ \E l \in MemLists : setAvailableMems(l)
    \/ \E l \in MemLists : setActiveMems(l)
    \/ \E n \in 0..(MaxAnalog + 1) : setAvailableAnalogs(RangeList(n))
    \/ \E l \in AnalogLists : setAvailableAnalogs(l)
    \/ \E l \in AnalogLists : setActiveAnalogs(l)
    \/ \E l \in MemLists : ReplayMask(l)

SpecChannels == InitChannels /\ [][NextChannels]_vars

\* ---- run() with its settings --------------------------------------------
Absent == "absent"

\* keyword arguments of run(): the settings whose loading or checking can
\* fail, each one absent or given
RunKwargs ==
    [job : {Absent, "listen", "bogus"},
     datatype : {Absent, "float32", "unknown", "bogus"},
     duration : {NoDuration, 0, 1},
     h5_recording : {Absent, "True"},
     h5_pass_through : {Absent, "True"},
     background_mode : {Absent, "True"}]

\* _set_settings: setJob raises on an unknown job, the datatype lookup on
\* an unknown name; the settings that come before the failure are kept
LoadFails(kw) == kw.job = "bogus" \/ kw.datatype = "bogus"

LoadedJob(kw) == IF kw.job \in {Absent, "bogus"} THEN job ELSE kw.job

LoadedDatatype(kw) ==
    IF kw.job = "bogus" \/ kw.datatype \in {Absent, "bogus"} THEN datatype ELSE kw.datatype

LoadedDuration(kw) ==
    IF LoadFails(kw) \/ kw.duration = NoDuration THEN duration ELSE kw.duration

LoadedFlag(kw, given, cur) == IF LoadFails(kw) \/ given = Absent THEN cur ELSE TRUE

\* _check_settings of the backend, on the loaded settings
CheckFails(b, kw) ==
    \/ Len(mems) = 0
    \/ LoadedDuration(kw) = NoDuration
    \/ LoadedDatatype(kw) = "unknown"
    \/ /\ b = "ws"
       /\ LoadedFlag(kw, kw.h5_recording, h5_recording)
       /\ LoadedFlag(kw, kw.h5_pass_through, h5_pass_through)
       /\ ~LoadedFlag(kw, kw.background_mode, background_mode)

\* run(): the timer is started after the checks, for a limited duration
\* (remote-live: for the listen job only)
TimerStartedUnchecked(b, kw, raised) ==
    LoadedDuration(kw) > 0 /\ (b = "ws" => LoadedJob(kw) = "listen")
TimerStarted(b, kw, raised) ==
    ~raised /\ LoadedDuration(kw) > 0 /\ (b = "ws" => LoadedJob(kw) = "listen")

\* run( **kw ) as a whole
RunCall(kw) ==
    /\ runs < MaxRuns
    /\ job' = LoadedJob(kw)
    /\ datatype' = LoadedDatatype(kw)
    /\ duration' = LoadedDuration(kw)
    /\ h5_recording' = LoadedFlag(kw, kw.h5_recording, h5_recording)
    /\ h5_pass_through' = LoadedFlag(kw, kw.h5_pass_through, h5_pass_through)
    /\ background_mode' = LoadedFlag(kw, kw.background_mode, background_mode)
    /\ LET raised == LoadFails(kw) \/ CheckFails(backend, kw)
           timer  == TimerStarted(backend, kw, raised)
       IN  /\ call_result' = IF raised THEN "raised" ELSE "ok"
           /\ runs' = runs + 1
           /\ running' = IF ~raised /\ backend = "h5" THEN TRUE ELSE running
           /\ timer_pc' = IF timer THEN [timer_pc EXCEPT ![runs + 1] = "armed"] ELSE timer_pc
           /\ thread_timer_flag' = IF timer THEN TRUE ELSE thread_timer_flag
           /\ thr_pc' = IF raised THEN thr_pc ELSE [thr_pc EXCEPT ![runs + 1] = "spawned"]
           /\ handle' = IF raised THEN handle ELSE runs + 1
    /\ UNCHANGED <<backend, thread_exception, wait_result, stop_called, thread_failed,
                   available_mems, mems, available_analogs, analogs, frame_columns,
                   qvars, wsvars, wrvars, pvars, fvars>>

\* the session as constructed, with or without an active microphone
InitRun ==
    /\ InitQ
    /\ InitF
    /\ InitR
    /\ InitW
    /\ InitH
    /\ InitP
    /\ ws_n = 0
    /\ maxsize = DEFAULT_QUEUE_SIZE
    /\ backend \in SettingsBackends
    /\ available_mems = RangeList(1)
    /\ mems \in {<<>>, RangeList(1)}
    /\ available_analogs = <<>>
    /\ analogs = <<>>
    /\ datatype = "int32"
    /\ job = "run"
    /\ h5_recording = FALSE
    /\ h5_pass_through = FALSE
    /\ background_mode = FALSE
    /\ call_result = "none"
    /\ frame_columns = <<>>

NextRun == \E kw \in RunKwargs : RunCall(kw)

SpecRun == InitRun /\ [][NextRun]_vars

\* ------------------------------------------------------------------------
\* File replay: MemsArrayH5.run and __run_thread over a list of files that
\* all hold file_dataset_number datasets of file_dataset_length samples.
\* The producer thread is thread 1; the replay starts at sample start_sample
\* of each file.  A sample is <<file position, sample number in the file>>,
\* a padding zero is <<file position, 0>>.
\* ------------------------------------------------------------------------
\* ignores where the slice starts in the dataset
DatasetSliceFromStart(f, ds, from, to) ==
    [i \in 1..(to - from) |-> <<f, ds * file_dataset_length + i>>]

\* samples from+1 .. to of dataset ds (numbered from 0) of file f
DatasetSlice(f, ds, from, to) ==
    [i \in 1..(to - from) |-> <<f, ds * file_dataset_length + from + i>>]

ZeroPad(f, n) == [i \in 1..n |-> <<f, 0>>]

\* run() with an unbounded duration, once per session
ReplayRun ==
    /\ runs = 0
    /\ Run(0)

\* while self.running: the file list is started, or the thread ends
ReplayLoopTest ==
    /\ thr_pc[1] \in {"spawned", "outer"}
    /\ IF running
       THEN /\ thr_pc' = [thr_pc EXCEPT ![1] = "open"]
            /\ file_index' = 1
       ELSE /\ thr_pc' = [thr_pc EXCEPT ![1] = "done"]
            /\ UNCHANGED file_index
    /\ UNCHANGED <<backend, running, duration, runs, handle, thread_exception, timer_pc,
                   thread_timer_flag, wait_result, stop_called, thread_failed,
                   files_number, loop, file_dataset_number, file_dataset_length,
                   dataset_index, dataset_loaded, dataset_index_ptr, file_endeed,
                   opened_files, frames_log, qvars, wsvars, wrvars, svars, fvars>>

\* the file is opened, its attributes are read, the dataset holding the
\* start cursor is loaded; a cursor at the end of the file names a dataset
\* that does not exist (ReplayOpenFail)
ReplayOpen ==
    /\ thr_pc[1] = "open"
    /\ Len(opened_files) < MaxOpens
    /\ opened_files' = Append(opened_files, file_index)
    /\ start_sample \div file_dataset_length < file_dataset_number
    /\ dataset_loaded' = start_sample \div file_dataset_length
    /\ dataset_index' = start_sample \div file_dataset_length + 1
    /\ dataset_index_ptr' = start_sample % file_dataset_length
    /\ file_endeed' = FALSE
    /\ thr_pc' = [thr_pc EXCEPT ![1] = "transfer"]
    /\ UNCHANGED <<backend, running, duration, runs, handle, thread_exception, timer_pc,
                   thread_timer_flag, wait_result, stop_called, thread_failed,
                   files_number, loop, file_dataset_number, file_dataset_length,
                   file_index, frames_log, qvars, wsvars, wrvars, svars, fvars>>

\* the file cannot be read as a container: the exception is logged and
\* raised again, which ends the thread
ReplayOpenFail ==
    /\ thr_pc[1] = "open"
    /\ thr_pc' = [thr_pc EXCEPT ![1] = "done"]
    /\ thread_exception' = ThreadException(backend, thread_exception)
    /\ thread_failed' = TRUE
    /\ UNCHANGED <<backend, running, duration, runs, handle, timer_pc,
                   thread_timer_flag, wait_result, stop_called, qvars, wsvars, wrvars,
                   svars, pvars, fvars>>

\* inner loop, one frame: from the loaded dataset, across two datasets, or
\* the end of the last dataset completed with zeros
ReplayFrame ==
    /\ thr_pc[1] = "transfer"
    /\ ~file_endeed /\ running
    /\ LET L    == frame_length
           D    == file_dataset_length
           tail == D - dataset_index_ptr
       IN  IF dataset_index_ptr + L <= D
           THEN /\ frames_log' = Append(frames_log,
                      DatasetSlice(file_index, dataset_loaded, dataset_index_ptr,
                                   dataset_index_ptr + L))
                /\ dataset_index_ptr' = dataset_index_ptr + L
                /\ UNCHANGED <<dataset_index, dataset_loaded, file_endeed>>
           ELSE IF dataset_index < file_dataset_number
           THEN /\ frames_log' = Append(frames_log,
                      DatasetSlice(file_index, dataset_loaded, dataset_index_ptr, D)
                        \o DatasetSlice(file_index, dataset_index, 0, L - tail))
                /\ dataset_loaded' = dataset_index
                /\ dataset_index_ptr' = L - tail
                /\ dataset_index' = dataset_index + 1
                /\ UNCHANGED file_endeed
           ELSE /\ frames_log' = Append(frames_log,
                      DatasetSlice(file_index, dataset_loaded, dataset_index_ptr, D)
                        \o ZeroPad(file_index, L - tail))
                /\ file_endeed' = TRUE
                /\ UNCHANGED <<dataset_index, dataset_loaded, dataset_index_ptr>>
    /\ PutBegin(1, Len(frames_log) + 1)
    /\ thr_pc' = [thr_pc EXCEPT ![1] = "put"]
    /\ UNCHANGED <<backend, running, duration, runs, handle, thread_exception, timer_pc,
                   thread_timer_flag, wait_result, stop_called, thread_failed,
                   produced, inserted, files_number, loop, file_dataset_number,
                   file_dataset_length, file_index, opened_files, wsvars, wrvars, svars, fvars>>

ReplayPutEvict ==
    /\ thr_pc[1] = "put"
    /\ PutEvict(1)
    /\ UNCHANGED <<produced, inserted, rvars, wsvars, wrvars, svars, pvars, fvars>>

ReplayPutInsert ==
    /\ thr_pc[1] = "put"
    /\ PutInsert(1)
    /\ inserted' = inserted + 1
    /\ thr_pc' = [thr_pc EXCEPT ![1] = "transfer"]
    /\ UNCHANGED <<backend, running, duration, runs, handle, thread_exception, timer_pc,
                   thread_timer_flag, wait_result, stop_called, thread_failed,
                   produced, wsvars, wrvars, svars, pvars, fvars>>

\* the inner loop ends (file ended or flag cleared): next file of the list,
\* or back to the test of the outer loop after the last one
ReplayFileEnd ==
    /\ thr_pc[1] = "transfer"
    /\ file_endeed \/ ~running
    /\ IF file_index < files_number
       THEN /\ file_index' = file_index + 1
            /\ thr_pc' = [thr_pc EXCEPT ![1] = "open"]
       ELSE /\ thr_pc' = [thr_pc EXCEPT ![1] = "outer"]
            /\ UNCHANGED file_index
    /\ UNCHANGED <<backend, running, duration, runs, handle, thread_exception, timer_pc,
                   thread_timer_flag, wait_result, stop_called, thread_failed,
                   files_number, loop, file_dataset_number, file_dataset_length,
                   dataset_index, dataset_loaded, dataset_index_ptr, file_endeed,
                   opened_files, frames_log, qvars, wsvars, wrvars, svars, fvars>>

ReplayStep ==
    \/ ReplayLoopTest
    \/ ReplayOpen
    \/ ReplayOpenFail
    \/ ReplayFrame
    \/ ReplayPutEvict
    \/ ReplayPutInsert
    \/ ReplayFileEnd

InitReplay ==
    /\ InitQ
    /\ h5_rows = <<>>
    /\ req_settings = NoSettings
    /\ srv_settings = NoSettings
    /\ db_start = 0
    /\ db_file_duration = 0
    /\ InitB
    /\ db_content_length = NoContent
    /\ db_chunks = 0
    /\ queues = <<>>
    /\ sessions = <<>>
    /\ discards = {}
    /\ InitR
    /\ InitW
    /\ InitHState
    /\ InitS
    /\ InitPState
    /\ ws_n = 0
    /\ backend = "h5"
    /\ maxsize \in {0, DEFAULT_QUEUE_SIZE}
    /\ files_number \in 1..MaxFiles
    /\ loop \in BOOLEAN
    /\ file_dataset_number \in 1..MaxReplayDatasets
    /\ file_dataset_length \in 1..MaxReplayLength
    /\ frame_length \in 1..MaxReplayLength
    /\ frame_length <= file_dataset_length
    /\ sampling_frequency = 1
    /\ h5_dataset_duration = 1
    /\ h5_file_duration = 1
    /\ mems_number = 1
    /\ counter = FALSE
    /\ counter_skip = FALSE
    /\ status = FALSE
    /\ frame_duration = <<frame_length, sampling_frequency>>
    /\ start_sample \in 0..(file_dataset_number * file_dataset_length)

\* the caller starts the replay and may stop it; the queue is not read
NextReplay ==
    \/ ReplayRun
    \/ Stop
    \/ ReplayStep

SpecReplay == InitReplay /\ [][NextReplay]_vars

\* ------------------------------------------------------------------------
\* Frames: what one iteration of the producer loop does to the frame, the
\* container writer and the queue, for the synthetic generator
\* (MemsArray.__run_thread, _run_process_data_float32) and for the
\* remote-live client (__remote_run, _run_process_data_bint32).  A frame
\* is described by its channels (one per column) or by its size in 32-bit
\* words; a queued item by its kind, element type, size and shape.
\* ------------------------------------------------------------------------
MaxProduced == 2    \* bound: frames produced by one run
MaxWordsOff == 1    \* bound: how far the size of a remote frame is from the expected one

Datatypes == {"int32", "float32", "bint32", "bfloat32"}

Channel(c, i) == [ch |-> c, id |-> i]

\* the columns of the array built by the synthetic generator
SyntheticColumns ==
    (IF counter /\ ~counter_skip THEN <<Channel("counter", 0)>> ELSE <<>>)
      \o [i \in 1..mems_number |-> Channel("mem", i - 1)]
      \o (IF status THEN <<Channel("status", 0)>> ELSE <<>>)

\* the rows a remote frame is reshaped into, named by their position
RemoteRows ==
    [i \in 1..channels_number(mems_number, counter, counter_skip, status) |->
        Channel("row", i - 1)]

\* input_data[1:,:] when the counter is on and skipped
StripCounter(rows) ==
    IF counter /\ counter_skip /\ rows # <<>> THEN Tail(rows) ELSE rows

\* rows of __h5_buffer as allocated by __h5_init
BufferRows ==
    channels_number(mems_number, counter, counter_skip, status)
      - BoolInt(counter /\ counter_skip)

\* numpy assignment of the signal into the buffer: the numbers of rows
\* must match, or the signal must have one row
WriteRaises(rows) == Len(rows) # BufferRows /\ Len(rows) # 1

NoneItem == [kind |-> "None", dtype |-> "none", words |-> 0, shape |-> <<>>]
ArrayItem(dt, r, c) == [kind |-> "array", dtype |-> dt, words |-> r * c, shape |-> <<r, c>>]
BytesItem(dt, w) == [kind |-> "bytes", dtype |-> dt, words |-> w, shape |-> <<w>>]

\* what _run_process_data_float32 returns: it has no return statement
run_process_data_float32(dt) == NoneItem

\* np.reshape( ..., ( frame_length, channels_number ) ) of a buffer of w words
ReshapeRaises(w) ==
    w # frame_length * channels_number(mems_number, counter, counter_skip, status)

\* _run_process_data_bint32 raises: in the recording branch, or in the
\* conversion to the requested datatype
run_process_data_bint32_raises(w, dt, rec) ==
    \/ rec /\ h5_started /\ (ReshapeRaises(w) \/ WriteRaises(StripCounter(RemoteRows)))
    \/ dt \in {"int32", "float32"} /\ ReshapeRaises(w)

\* what _run_process_data_bint32 returns
run_process_data_bint32(w, dt) ==
    IF dt = "bint32" THEN BytesItem("int32", w)
    ELSE IF dt = "int32"
         THEN ArrayItem("int32", frame_length,
                        channels_number(mems_number, counter, counter_skip, status))
    ELSE IF dt = "float32"
         THEN ArrayItem("float32", frame_length,
                        channels_number(mems_number, counter, counter_skip, status))
    ELSE BytesItem("float32", w)

\* Queue.put as a whole: the oldest frame is discarded when the queue is full
QueuePut(x) ==
    /\ signal_q' = IF QueueFull(signal_q, maxsize)
                   THEN Append(QueueGet(signal_q), x) ELSE Append(signal_q, x)
    /\ transfert_lost' = IF QueueFull(signal_q, maxsize)
                         THEN Min(transfert_lost + 1, MaxFrames) ELSE transfert_lost
    /\ produced' = produced + 1
    /\ inserted' = inserted + 1
    /\ UNCHANGED <<maxsize, put_pc, put_data, evicted, consumed, last_next>>

\* the frame is saved when recording is requested and started
FrameRecorded(rec, rows) ==
    IF rec /\ h5_started
    THEN H5WriteMemsBody /\ h5_rows' = rows
    ELSE UNCHANGED <<wrvars, h5_rows>>

\* run(): MemsArray.run or MemsArrayWS.run with an unbounded duration
FramesRun ==
    /\ runs = 0
    /\ IF backend = "ws" THEN WsRun(0) ELSE Run(0)

\* the thread reaches its loop with the running flag set: first statement
\* of MemsArray.__run_thread; for the remote-live client, connection,
\* greeting and acknowledgment, then setRunningFlag( True ) in __remote_run
FramesThreadStart == ThreadStart(1)

\* the loop ends on the cleared flag (remote-live: after the halt exchange)
FramesLoopExit == LoopExit(1)

\* MemsArray.__run_thread, one iteration: the frame is generated, saved if
\* requested, and the result of _run_process_data_float32 is queued
SyntheticFrame ==
    /\ backend = "base"
    /\ thr_pc[1] = "loop"
    /\ running
    /\ produced < MaxProduced
    /\ LET rows == StripCounter(SyntheticColumns)
       IN  IF h5_recording /\ h5_started /\ WriteRaises(rows)
           THEN /\ thr_pc' = [thr_pc EXCEPT ![1] = "done"]
                /\ thread_exception' = ThreadException(backend, thread_exception)
                /\ thread_failed' = TRUE
                /\ UNCHANGED <<qvars, wrvars, h5_rows>>
           ELSE /\ FrameRecorded(h5_recording, rows)
                /\ QueuePut(run_process_data_float32(datatype))
                /\ UNCHANGED <<thr_pc, thread_exception, thread_failed>>
    /\ UNCHANGED <<backend, running, duration, runs, handle, timer_pc, thread_timer_flag,
                   wait_result, stop_called, wsvars, svars, pvars, req_settings,
                   srv_settings, db_start, db_file_duration, bvars, xvars>>

\* __remote_run, one binary frame of w words: lost when the flag is
\* cleared; else saved if requested, converted and queued; an exception
\* ends the loop and is logged
RemoteFrame(w) ==
    /\ backend = "ws"
    /\ thr_pc[1] = "loop"
    /\ produced + transfer_lost < MaxProduced
    /\ LET rec == h5_recording /\ ~h5_pass_through
       IN  IF ~WsFrameQueued(running)
           THEN /\ transfer_lost' = transfer_lost + 1
                /\ UNCHANGED <<qvars, wrvars, h5_rows, thr_pc, thread_exception,
                               thread_failed, ws_outcome, ws_fault, transfer_index>>
           ELSE IF run_process_data_bint32_raises(w, datatype, rec)
           THEN /\ WsEnd("error")
                /\ ws_fault' = "process"
                /\ UNCHANGED <<qvars, wrvars, h5_rows, transfer_index, transfer_lost>>
           ELSE /\ FrameRecorded(rec, StripCounter(RemoteRows))
                /\ QueuePut(run_process_data_bint32(w, datatype))
                /\ transfer_index' = transfer_index + 1
                /\ UNCHANGED <<thr_pc, thread_exception, thread_failed, ws_outcome,
                               ws_fault, transfer_lost>>
    /\ UNCHANGED <<backend, running, duration, runs, handle, timer_pc, thread_timer_flag,
                   wait_result, stop_called, ws_in, ws_out, ws_n, srv_pc, srv_sent,
                   halt_registered, halt_rx, rx_stopped, svars, pvars, req_settings,
                   srv_settings, db_start, db_file_duration, bvars, xvars>>

\* sizes of the frames the server may send
FrameSizes ==
    LET n == frame_length * channels_number(mems_number, counter, counter_skip, status)
    IN  {w \in (n - MaxWordsOff)..(n + MaxWordsOff) : w >= 0}

InitFrames ==
    /\ InitQ
    /\ InitF
    /\ InitR
    /\ InitW
    /\ InitHState
    /\ InitP
    /\ ws_n = 0
    /\ maxsize = DEFAULT_QUEUE_SIZE
    /\ backend \in {"base", "ws"}
    /\ mems_number \in 1..MaxMems
    /\ available_mems = RangeList(mems_number)
    /\ mems = RangeList(mems_number)
    /\ available_analogs = <<>>
    /\ analogs = <<>>
    /\ datatype \in Datatypes
    /\ job = "run"
    /\ h5_recording \in BOOLEAN
    /\ h5_pass_through = FALSE
    /\ background_mode = FALSE
    /\ call_result = "none"
    /\ frame_columns = <<>>
    /\ sampling_frequency = 1
    /\ h5_dataset_duration \in 1..MaxDatasetDuration
    /\ h5_file_duration = MaxFileDuration
    /\ frame_length \in 1..MaxDatasetDuration
    /\ frame_length <= h5_dataset_duration * sampling_frequency
    /\ counter \in BOOLEAN
    /\ counter_skip \in BOOLEAN
    /\ status \in BOOLEAN
    /\ frame_duration = <<frame_length, sampling_frequency>>

NextFrames ==
    \/ FramesRun
    \/ H5Start
    \/ FramesThreadStart
    \/ SyntheticFrame
    \/ \E w \in FrameSizes : RemoteFrame(w)
    \/ Stop
    \/ FramesLoopExit

SpecFrames == InitFrames /\ [][NextFrames]_vars

\* ------------------------------------------------------------------------
\* Settings fixed by the source: sampling frequency and counter presence,
\* through the setters and through _set_settings (constructor and run()
\* keywords), for every backend.
\* ------------------------------------------------------------------------
\* MemsArrayH5 and MemsArrayDB override the setters: the value is only
\* handed to the parent class when force is given
OverrideAppliesAlways(b, force) == TRUE
OverrideApplies(b, force) == b \in {"h5", "db"} => force

\* MemsArray.setSamplingFrequency on the state of the session
SamplingFrequencySet(v) ==
    /\ sampling_frequency' = v
    /\ frame_duration' = <<frame_length, v>>

setSamplingFrequency(v, force) ==
    /\ IF ~OverrideApplies(backend, force)
       THEN /\ call_result' = "ignored"
            /\ UNCHANGED <<sampling_frequency, frame_duration>>
       ELSE IF v = 0
       THEN /\ call_result' = "raised"
            /\ UNCHANGED <<sampling_frequency, frame_duration>>
       ELSE /\ call_result' = "ok"
            /\ SamplingFrequencySet(v)
    /\ UNCHANGED <<h5_started, h5_dataset_number, h5_dataset_length, h5_buffer,
                   h5_buffer_index, h5_dataset_index, h5_current_file, h5_files, h5_attrs,
                   clock, frame_length, h5_dataset_duration, h5_file_duration, mems_number,
                   counter, counter_skip, status, frames_written, h5_flushed, h5_opened,
                   h5_timestamp, h5_ts, available_mems, mems, available_analogs, analogs,
                   datatype, job, h5_recording, h5_pass_through, background_mode,
                   frame_columns, qvars, rvars, wsvars, pvars, fvars>>

\* setCounter (value TRUE) and unsetCounter (value FALSE)
CounterSet(value, force) ==
    /\ IF ~OverrideApplies(backend, force)
       THEN /\ call_result' = "ignored"
            /\ UNCHANGED counter
       ELSE /\ call_result' = "ok"
            /\ counter' = value
    /\ UNCHANGED <<h5_started, h5_dataset_number, h5_dataset_length, h5_buffer,
                   h5_buffer_index, h5_dataset_index, h5_current_file, h5_files, h5_attrs,
                   clock, frame_length, sampling_frequency, frame_duration,
                   h5_dataset_duration, h5_file_duration, mems_number,
                   counter_skip, status, frames_written, h5_flushed, h5_opened,
                   h5_timestamp, h5_ts, available_mems, mems, available_analogs, analogs,
                   datatype, job, h5_recording, h5_pass_through, background_mode,
                   frame_columns, qvars, rvars, wsvars, pvars, fvars>>

setCounter(force) == CounterSet(TRUE, force)

unsetCounter(force) == CounterSet(FALSE, force)

\* keywords of the constructor or of run() that ask for a counter presence
\* or a sampling frequency
FixedKwargs ==
    [has_counter : BOOLEAN, counter : BOOLEAN,
     has_sampling_frequency : BOOLEAN, sampling_frequency : 0..MaxSamplingFrequency]

\* MemsArray._set_settings for these keywords: the setters of the session's
\* class are called without force, the counter first; a failure of the
\* second leaves the effect of the first
set_settings(kw) ==
    /\ kw.has_counter \/ kw.has_sampling_frequency
    /\ LET applies == OverrideApplies(backend, FALSE)
           raises  == kw.has_sampling_frequency /\ applies /\ kw.sampling_frequency = 0
       IN  /\ counter' = IF kw.has_counter /\ applies THEN kw.counter ELSE counter
           /\ IF kw.has_sampling_frequency /\ applies /\ ~raises
              THEN SamplingFrequencySet(kw.sampling_frequency)
              ELSE UNCHANGED <<sampling_frequency, frame_duration>>
           /\ call_result' = IF raises THEN "raised"
                             ELSE IF applies THEN "ok" ELSE "ignored"
    /\ UNCHANGED <<h5_started, h5_dataset_number, h5_dataset_length, h5_buffer,
                   h5_buffer_index, h5_dataset_index, h5_current_file, h5_files, h5_attrs,
                   clock, frame_length, h5_dataset_duration, h5_file_duration, mems_number,
                   counter_skip, status, frames_written, h5_flushed, h5_opened,
                   h5_timestamp, h5_ts, available_mems, mems, available_analogs, analogs,
                   datatype, job, h5_recording, h5_pass_through, background_mode,
                   frame_columns, qvars, rvars, wsvars, pvars, fvars>>

\* a request made without the override flag
UnforcedRequest ==
    \/ \E v \in 0..MaxSamplingFrequency : setSamplingFrequency(v, FALSE)
    \/ setCounter(FALSE)
    \/ unsetCounter(FALSE)
    \/ \E kw \in FixedKwargs : set_settings(kw)

\* the session as constructed: for the replay backends the sampling
\* frequency and the counter presence come from the source
InitFixed ==
    /\ InitQ
    /\ InitF
    /\ InitR
    /\ InitW
    /\ InitHState
    /\ InitS
    /\ InitP
    /\ ws_n = 0
    /\ maxsize = DEFAULT_QUEUE_SIZE
    /\ backend \in SettingsBackends
    /\ sampling_frequency \in 1..MaxSamplingFrequency
    /\ frame_length \in 1..MaxFrameLength
    /\ frame_duration = <<frame_length, sampling_frequency>>
    /\ h5_dataset_duration = 1
    /\ h5_file_duration = 1
    /\ mems_number = 1
    /\ counter \in BOOLEAN
    /\ counter_skip = FALSE
    /\ status = FALSE

NextFixed ==
    \/ \E v \in 0..MaxSamplingFrequency, force \in BOOLEAN : setSamplingFrequency(v, force)
    \/ \E force \in BOOLEAN : setCounter(force)
    \/ \E force \in BOOLEAN : unsetCounter(force)
    \/ \E kw \in FixedKwargs : set_settings(kw)

SpecFixed == InitFixed /\ [][NextFixed]_vars

\* ------------------------------------------------------------------------
\* Database replay: MemsArrayDB.run( start, duration ) and the range test
\* at the head of MemsArrayDB.__run_thread, on a source file of
\* db_file_duration seconds.  The session has an active microphone.
\* ------------------------------------------------------------------------
MaxDbFileDuration == 2    \* bound: duration of the source file, largest start and duration

\* the test of __run_thread on the requested range
RangeRejected(start, d, file_duration) == start + d >= file_duration

\* run( start=s, duration=d ): settings, timer for a limited duration, thread
DbRun(s, d) ==
    /\ runs = 0
    /\ db_start' = s
    /\ duration' = d
    /\ runs' = runs + 1
    /\ timer_pc' = [timer_pc EXCEPT ![runs + 1] = IF d > 0 THEN "armed" ELSE "none"]
    /\ thread_timer_flag' = IF d > 0 THEN TRUE ELSE thread_timer_flag
    /\ thr_pc' = [thr_pc EXCEPT ![runs + 1] = "spawned"]
    /\ handle' = runs + 1
    /\ stop_called' = FALSE
    /\ UNCHANGED <<backend, running, thread_exception, wait_result, thread_failed,
                   h5_rows, req_settings, srv_settings, db_file_duration, bvars, xvars, qvars, wsvars, wrvars,
                   svars, pvars>>

\* __run_thread up to the loop: the range test raises outside of the try
\* statement, so the exception leaves the thread and nothing is stored;
\* else the request is sent and the flag is set once it is answered
DbRangeTest ==
    /\ thr_pc[1] = "spawned"
    /\ IF RangeRejected(db_start, duration, db_file_duration)
       THEN /\ thr_pc' = [thr_pc EXCEPT ![1] = "done"]
            /\ thread_exception' = ThreadException(backend, thread_exception)
            /\ thread_failed' = TRUE
            /\ UNCHANGED running
       ELSE /\ thr_pc' = [thr_pc EXCEPT ![1] = "loop"]
            /\ running' = TRUE
            /\ UNCHANGED <<thread_exception, thread_failed>>
    /\ UNCHANGED <<backend, duration, runs, handle, timer_pc, thread_timer_flag,
                   wait_result, stop_called, qvars, wsvars, wrvars, svars, pvars, fvars>>

\* the chunks of the response are queued until the flag is cleared or the
\* response ends
DbThreadStep ==
    \/ DbRangeTest
    \/ LoopPut(1)
    \/ ThreadEvict(1)
    \/ ThreadInsert(1)
    \/ LoopExit(1)

InitDB ==
    /\ InitQ
    /\ InitR
    /\ InitW
    /\ InitH
    /\ InitS
    /\ InitP
    /\ ws_n = 0
    /\ maxsize = DEFAULT_QUEUE_SIZE
    /\ backend = "db"
    /\ h5_rows = <<>>
    /\ req_settings = NoSettings
    /\ srv_settings = NoSettings
    /\ db_start = 0
    /\ db_file_duration \in 1..MaxDbFileDuration
    /\ InitB
    /\ InitX

NextDB ==
    \/ \E s \in 0..MaxDbFileDuration, d \in 0..MaxDbFileDuration : DbRun(s, d)
    \/ DbThreadStep
    \/ TimerFire(1)
    \/ Stop
    \/ Wait
    \/ Consume

SpecDB == InitDB /\ [][NextDB]_vars

\* ---- the response of the database ---------------------------------------
MaxContentLength == 9     \* bound: bytes announced by the response
MaxDbFrameLength == 2     \* bound: frame_length of a database replay

\* channels requested: the microphones, and the counter unless skipped
DbChannels(m, c, cs) == m + BoolInt(c /\ ~cs)

\* bytes of one sample of every channel
DbRow == DbChannels(mems_number, counter, counter_skip) * 4

\* chunk_size = self.frame_length * channels_number * 4
DbChunkSize == frame_length * DbRow

\* takes every response
StreamRejectedNever(cl, chunk, row) == FALSE

\* if (content_length%chunk_size) % (channels_number*4) != 0: raise; with no
\* channel the modulo itself raises
StreamRejected(cl, chunk, row) ==
    IF chunk = 0 THEN TRUE ELSE (cl % chunk) % row # 0

\* __run_thread up to the loop: range test (outside of the try statement),
\* request, content-length of the answer, test of the size, HTTP status;
\* a refused response is logged and the thread ends
DbAnswer(cl, http_ok) ==
    /\ thr_pc[1] = "spawned"
    /\ IF RangeRejected(db_start, duration, db_file_duration)
       THEN /\ thr_pc' = [thr_pc EXCEPT ![1] = "done"]
            /\ thread_exception' = ThreadException(backend, thread_exception)
            /\ thread_failed' = TRUE
            /\ UNCHANGED <<running, db_content_length>>
       ELSE /\ db_content_length' = cl
            /\ IF StreamRejected(cl, DbChunkSize, DbRow) \/ ~http_ok
               THEN /\ thr_pc' = [thr_pc EXCEPT ![1] = "done"]
                    /\ UNCHANGED running
               ELSE /\ thr_pc' = [thr_pc EXCEPT ![1] = "loop"]
                    /\ running' = TRUE
            /\ UNCHANGED <<thread_exception, thread_failed>>
    /\ UNCHANGED <<backend, duration, runs, handle, timer_pc, thread_timer_flag,
                   wait_result, stop_called, qvars, wsvars, wrvars, svars, pvars,
                   h5_rows, req_settings, srv_settings, db_start, db_file_duration,
                   bvars, start_sample, db_chunks, queues, sessions, discards>>

\* for chunk in response.iter_content( chunk_size ): the next chunk is
\* handed to signal_q.put
DbChunk ==
    /\ thr_pc[1] = "loop"
    /\ db_chunks < CeilDiv(db_content_length, DbChunkSize)
    /\ db_chunks' = db_chunks + 1
    /\ PutBegin(1, 0)
    /\ thr_pc' = [thr_pc EXCEPT ![1] = "put"]
    /\ UNCHANGED <<backend, running, duration, runs, handle, thread_exception, timer_pc,
                   thread_timer_flag, wait_result, stop_called, thread_failed,
                   produced, inserted, wsvars, wrvars, svars, pvars,
                   h5_rows, req_settings, srv_settings, db_start, db_file_duration,
                   bvars, start_sample, db_content_length, queues, sessions, discards>>

\* the response is exhausted
DbResponseEnd ==
    /\ thr_pc[1] = "loop"
    /\ db_chunks = CeilDiv(db_content_length, DbChunkSize)
    /\ thr_pc' = [thr_pc EXCEPT ![1] = "done"]
    /\ UNCHANGED <<backend, running, duration, runs, handle, thread_exception, timer_pc,
                   thread_timer_flag, wait_result, stop_called, thread_failed, qvars,
                   wsvars, wrvars, svars, pvars, fvars>>

InitResponse ==
    /\ InitQ
    /\ InitR
    /\ InitW
    /\ InitHState
    /\ InitS
    /\ InitP
    /\ ws_n = 0
    /\ maxsize \in {1, DEFAULT_QUEUE_SIZE}
    /\ backend = "db"
    /\ h5_rows = <<>>
    /\ req_settings = NoSettings
    /\ srv_settings = NoSettings
    /\ db_start = 0
    /\ db_file_duration = MaxDbFileDuration
    /\ InitB
    /\ InitX
    /\ frame_length \in 1..MaxDbFrameLength
    /\ sampling_frequency = 1
    /\ h5_dataset_duration = 1
    /\ h5_file_duration = 1
    /\ mems_number \in 0..1
    /\ counter \in BOOLEAN
    /\ counter_skip \in BOOLEAN
    /\ status = FALSE
    /\ frame_duration = <<frame_length, sampling_frequency>>

NextResponse ==
    \/ \E s \in 0..MaxDbFileDuration, d \in 0..MaxDbFileDuration : DbRun(s, d)
    \/ \E cl \in 0..MaxContentLength, http_ok \in BOOLEAN : DbAnswer(cl, http_ok)
    \/ DbChunk
    \/ ThreadEvict(1)
    \/ ThreadInsert(1)
    \/ DbResponseEnd
    \/ TimerFire(1)
    \/ Stop
    \/ Consume

SpecResponse == InitResponse /\ [][NextResponse]_vars

\* ------------------------------------------------------------------------
\* Jobs of the remote backend: MemsArrayWS.run with its keyword settings,
\* then the producer thread for the jobs 'run', 'master' and 'listen'.
\* The session was constructed with one activated microphone, a frame
\* length and a sampling frequency of 1, and any job; the server streams
\* MaxWsFrames frames.
\* ------------------------------------------------------------------------
Jobs == {"run", "master", "listen"}

NoJob == "none"    \* keyword 'job' not given

\* keywords of run(); frame_length and sampling_frequency 0: not given
JobKwargs ==
    [job : Jobs \cup {NoJob}, frame_length : {0, MaxFrameLength},
     sampling_frequency : {0, MaxSamplingFrequency}, duration : {0, 1}]

\* settings of the master, as its server reports them to a listener
MasterSettings ==
    [sampling_frequency |-> MaxSamplingFrequency + 1, frame_length |-> MaxFrameLength + 1]

\* MemsArrayWS.run: keywords removed before the settings are installed
ListenFilter(kw) ==
    IF kw.job = "listen"
    THEN [kw EXCEPT !.frame_length = 0, !.sampling_frequency = 0]
    ELSE kw

\* __run: the job attaches the client to the stream (__remote_run)
JobListensAlways(j) == TRUE
JobListens(j) == j \in {"run", "listen"}

\* acknowledgment of the job request, with the settings of the master
\* (frame_length 0: none reported)
AckMsg(resp, req, settings) ==
    [type |-> "status", response |-> resp, request |-> req, id |-> 0, settings |-> settings]

\* MemsArrayWS.run: the listen filter, the settings (sampling frequency,
\* job, duration, frame length in the order of MemsArray._set_settings),
\* the checks, the timer (listeners only) and the thread
JobRun(kw) ==
    /\ runs = 0
    /\ mems # <<>>
    /\ LET k   == ListenFilter(kw)
           sf  == IF k.sampling_frequency # 0 THEN k.sampling_frequency ELSE sampling_frequency
           fl  == IF k.frame_length # 0 THEN k.frame_length ELSE frame_length
           j   == IF k.job # NoJob THEN k.job ELSE job
           timed == j = "listen" /\ k.duration > 0
       IN  /\ sampling_frequency' = sf
           /\ frame_length' = fl
           /\ frame_duration' = IF k.sampling_frequency # 0 \/ k.frame_length # 0
                                THEN <<fl, sf>> ELSE frame_duration
           /\ job' = j
           /\ duration' = k.duration
           /\ timer_pc' = [timer_pc EXCEPT ![1] = IF timed THEN "armed" ELSE "none"]
           /\ thread_timer_flag' = IF timed THEN TRUE ELSE thread_timer_flag
    /\ runs' = 1
    /\ thr_pc' = [thr_pc EXCEPT ![1] = "spawned"]
    /\ handle' = 1
    /\ stop_called' = FALSE
    /\ UNCHANGED <<running, thread_exception, wait_result, thread_failed, backend,
                   qvars, wsvars, pvars, fvars>>
    /\ UNCHANGED <<h5_started, h5_dataset_number, h5_dataset_length, h5_buffer,
                   h5_buffer_index, h5_dataset_index, h5_current_file, h5_files, h5_attrs,
                   clock, h5_dataset_duration, h5_file_duration, mems_number, counter,
                   counter_skip, status, frames_written, h5_flushed, h5_opened,
                   h5_timestamp, h5_ts>>
    /\ UNCHANGED <<available_mems, mems, available_analogs, analogs, datatype,
                   h5_recording, h5_pass_through, background_mode, call_result,
                   frame_columns>>

\* __run: the greeting is received and checked, the job request is sent
\* with the settings of the session
JobGreeting ==
    /\ thr_pc[1] = "greeting"
    /\ ws_in # <<>>
    /\ ws_in' = Tail(ws_in)
    /\ IF check_mbs_error(Head(ws_in))
       THEN /\ WsEnd("error")
            /\ UNCHANGED <<ws_out, req_settings>>
       ELSE /\ ws_out' = Append(ws_out, job)
            /\ req_settings' = [sampling_frequency |-> sampling_frequency,
                                frame_length |-> frame_length]
            /\ thr_pc' = [thr_pc EXCEPT ![1] = "ack"]
            /\ UNCHANGED <<ws_outcome, thread_exception, thread_failed>>
    /\ UNCHANGED <<backend, running, duration, runs, handle, timer_pc, thread_timer_flag,
                   wait_result, stop_called, qvars, ws_n, srv_pc, srv_sent, halt_registered,
                   transfer_index, transfer_lost, ws_fault, halt_rx, rx_stopped>>
    /\ UNCHANGED <<wrvars, svars, pvars, h5_rows, srv_settings, db_start, db_file_duration, bvars, xvars>>

\* __run: the answer to the job request is checked.  Job 'master': the
\* thread sleeps and returns.  Job 'listen': the settings of the answer,
\* if any, are installed.  Jobs 'run' and 'listen': __remote_run starts and
\* sets the running flag.
JobAck ==
    /\ thr_pc[1] = "ack"
    /\ ws_in # <<>>
    /\ ws_in' = Tail(ws_in)
    /\ LET m == Head(ws_in)
           adopt == job = "listen" /\ m.settings.frame_length # 0
       IN  IF check_mbs_error(m)
           THEN /\ WsEnd("error")
                /\ UNCHANGED <<running, sampling_frequency, frame_length, frame_duration>>
           ELSE IF ~JobListens(job)
           THEN /\ WsEnd("master")
                /\ UNCHANGED <<running, sampling_frequency, frame_length, frame_duration>>
           ELSE /\ sampling_frequency' = IF adopt THEN m.settings.sampling_frequency
                                         ELSE sampling_frequency
                /\ frame_length' = IF adopt THEN m.settings.frame_length ELSE frame_length
                /\ frame_duration' = IF adopt
                                     THEN <<m.settings.frame_length, m.settings.sampling_frequency>>
                                     ELSE frame_duration
                /\ running' = TRUE
                /\ thr_pc' = [thr_pc EXCEPT ![1] = "loop"]
                /\ UNCHANGED <<ws_outcome, thread_exception, thread_failed>>
    /\ UNCHANGED <<backend, duration, runs, handle, timer_pc, thread_timer_flag,
                   wait_result, stop_called, qvars, ws_out, ws_n, srv_pc, srv_sent,
                   halt_registered, transfer_index, transfer_lost, ws_fault, halt_rx,
                   rx_stopped, svars, pvars, fvars>>
    /\ UNCHANGED <<h5_started, h5_dataset_number, h5_dataset_length, h5_buffer,
                   h5_buffer_index, h5_dataset_index, h5_current_file, h5_files, h5_attrs,
                   clock, h5_dataset_duration, h5_file_duration, mems_number, counter,
                   counter_skip, status, frames_written, h5_flushed, h5_opened,
                   h5_timestamp, h5_ts>>

\* answer of the server to the job request; a listener may be given the
\* settings of the master
SrvJobAck ==
    /\ srv_pc = "wait_run"
    /\ ws_out # <<>> /\ Head(ws_out) \in Jobs
    /\ ws_out' = Tail(ws_out)
    /\ \/ /\ SrvSend(AckMsg("ok", Head(ws_out), NoSettings), "stream")
          /\ UNCHANGED srv_settings
       \/ /\ Head(ws_out) = "listen"
          /\ SrvSend(AckMsg("ok", Head(ws_out), MasterSettings), "stream")
          /\ srv_settings' = MasterSettings
       \/ /\ SrvSend(AckMsg("error", Head(ws_out), NoSettings), "stopped")
          /\ UNCHANGED srv_settings
    /\ UNCHANGED <<qvars, rvars, ws_n, srv_sent, halt_registered, transfer_index,
                   transfer_lost, ws_outcome, halt_rx, rx_stopped>>
    /\ UNCHANGED <<wrvars, svars, pvars, h5_rows, req_settings, db_start, db_file_duration, bvars, xvars>>

JobThreadStep ==
    \/ WsConnect
    \/ JobGreeting
    \/ JobAck
    \/ WsLoopTop
    \/ WsRecvStatus
    \/ WsRecvFrame
    \/ WsPutEvict
    \/ WsPutInsert

JobServerStep ==
    \/ SrvGreet
    \/ SrvJobAck
    \/ SrvFrame
    \/ SrvCompleted
    \/ SrvHalt

InitJobs ==
    /\ InitH
    /\ InitP
    /\ InitQ
    /\ InitF
    /\ InitR
    /\ InitW
    /\ ws_n = MaxWsFrames
    /\ backend = "ws"
    /\ maxsize \in {1, DEFAULT_QUEUE_SIZE}
    /\ available_mems = <<1>>
    /\ mems = <<1>>
    /\ available_analogs = <<>>
    /\ analogs = <<>>
    /\ datatype = "int32"
    /\ job \in Jobs
    /\ h5_recording = FALSE
    /\ h5_pass_through = FALSE
    /\ background_mode = FALSE
    /\ call_result = "none"
    /\ frame_columns = <<>>

NextJobs ==
    \/ \E kw \in JobKwargs : JobRun(kw)
    \/ JobThreadStep
    \/ JobServerStep
    \/ TimerFire(1)
    \/ Stop
    \/ Wait

SpecJobs == InitJobs /\ [][NextJobs]_vars

\* ------------------------------------------------------------------------
\* Beamformer: init() and beamform().  The antenna and the grid lie on the
\* x axis; lengths are counted in c/fs (the distance sound travels during
\* one sample), the FFT window holds four samples, so that every phase
\* factor exp(1j*2*pi*f*D/c) is a whole number of quarter turns and complex
\* numbers are pairs of integers <<re, im>>.  The normalized band is given
\* in quarters.  An energy is kept as the fraction num/den.
\* ------------------------------------------------------------------------
MaxBmfMems == 2         \* bound: microphones of the antenna
MaxMemsX == 2           \* bound: abscissa of a microphone
MaxLocNumber == 3       \* bound: locations of the grid
MaxAreaPosition == 4    \* bound: abscissa of the centre of the area

fft_win_size == 4       \* setFftWindowSize( 4 )
BandUnit == 4           \* band_width = q / BandUnit

CAdd(a, b) == <<a[1] + b[1], a[2] + b[2]>>
CMul(a, b) == <<a[1] * b[1] - a[2] * b[2], a[1] * b[2] + a[2] * b[1]>>
CAbs2(a) == a[1] * a[1] + a[2] * a[2]

\* np.exp( 1j*2*np.pi*n/4 )
QuarterTurns(n) ==
    CASE n % 4 = 0 -> <<1, 0>>
      [] n % 4 = 1 -> <<0, 1>>
      [] n % 4 = 2 -> <<-1, 0>>
      [] n % 4 = 3 -> <<0, -1>>

RECURSIVE CSum(_, _, _)
CSum(f, lo, hi) == IF lo > hi THEN <<0, 0>> ELSE CAdd(f[lo], CSum(f, lo + 1, hi))

RECURSIVE ISum(_, _, _)
ISum(f, lo, hi) == IF lo > hi THEN 0 ELSE f[lo] + ISum(f, lo + 1, hi)

AbsInt(x) == IF x < 0 THEN -x ELSE x

\* np.fft.rfftfreq( fft_win_size, 1/fs ).size
freq_number == fft_win_size \div 2 + 1

\* init: int( fs * band_width / frequency_step / 2 ) with
\* frequency_step = fs / freq_number / 2
BandIndex(q) == (q * freq_number) \div BandUnit

\* _build_locations on the x axis: n locations, two lengths apart, centred
\* on the position of the area
build_locations(n, pos) == [i \in 1..n |-> 2 * (i - 1) + 1 - n + pos]

\* init: the distance matrix
DistanceMatrix(mp, loc) ==
    [s \in 1..Len(loc) |-> [m \in 1..Len(mp) |-> AbsInt(mp[m] - loc[s])]]

\* init: the preformed channels, H[k, s, m] = exp( 1j*2*pi*f[k]*D[s,m]/c )
H(k, s, m) == QuarterTurns(k * bmf.D[s][m])

\* np.fft.rfft( signal, n=fft_win_size, axis=0 ) of a window of
\* fft_win_size samples
rfft(signal) ==
    [k \in 0..(freq_number - 1) |->
        [m \in 1..Len(bmf.mems_position) |->
            CSum([n \in 0..(fft_win_size - 1) |->
                     CMul(<<signal[n][m], 0>>, QuarterTurns(-(k * n)))],
                 0, fft_win_size - 1)]]

\* a value of the output: num / den, not a number when 0 / 0
Energy(num, den) == [nan |-> den = 0, num |-> num, den |-> den]

\* Spec[a : b] of numpy for 0 <= a, 0 <= b
Slice(a, b) == {k \in 0..(freq_number - 1) : a <= k /\ k < b}

\* beamform
beamform(signal) ==
    LET Spectrum == rfft(signal)
        M == Len(bmf.mems_position)
        BFSpec == [k \in 0..(freq_number - 1) |->
                     [s \in 1..Len(bmf.locations) |->
                         CSum([m \in 1..M |-> CMul(Spectrum[k][m], H(k, s, m))], 1, M)]]
        band == Slice(bmf.bw_range_start, bmf.bw_range_end + 1)
    IN  [s \in 1..Len(bmf.locations) |->
            Energy(ISum([k \in 0..(freq_number - 1) |->
                            IF k \in band THEN CAbs2(BFSpec[k][s]) ELSE 0],
                        0, freq_number - 1),
                   M * M * bmf.bw_length)]

\* the window received from a point source at location src: an impulse
\* emitted at time 0 reaches microphone m after D[src, m] samples
PointSourceSignal(src) ==
    [n \in 0..(fft_win_size - 1) |->
        [m \in 1..Len(bmf.mems_position) |->
            IF n = bmf.D[src][m] % fft_win_size THEN 1 ELSE 0]]

\* init(), after setMemsPosition, setArea, setAreaQuantization,
\* setSamplingFrequency, setFftWindowSize and setBandWidth
BmfInit(mp, n, pos, bw) ==
    /\ ~bmf.ready
    /\ LET loc == build_locations(n, pos)
           first == BandIndex(bw[1])
           last == BandIndex(bw[2]) - 1
       IN  bmf' = [ready |-> TRUE, mems_position |-> mp, locations |-> loc,
                   D |-> DistanceMatrix(mp, loc), bw_range_start |-> first,
                   bw_range_end |-> last, bw_length |-> last - first + 1]
    /\ UNCHANGED <<bmf_source, BFE>>
    /\ UNCHANGED <<qvars, rvars, wsvars, wrvars, svars, pvars, h5_rows, req_settings,
                   srv_settings, db_start, db_file_duration, xvars>>

\* beamform on the window of a point source at a location of the grid
Beamform(src) ==
    /\ bmf.ready
    /\ src \in 1..Len(bmf.locations)
    /\ BFE' = beamform(PointSourceSignal(src))
    /\ bmf_source' = src
    /\ UNCHANGED bmf
    /\ UNCHANGED <<qvars, rvars, wsvars, wrvars, svars, pvars, h5_rows, req_settings,
                   srv_settings, db_start, db_file_duration, xvars>>

MemsPositions == {mp \in ListsOver(0..MaxMemsX) : Len(mp) \in 1..MaxBmfMems}

InitBmf ==
    /\ InitQ
    /\ InitF
    /\ InitR
    /\ InitW
    /\ InitH
    /\ InitS
    /\ InitP
    /\ ws_n = 0
    /\ maxsize = DEFAULT_QUEUE_SIZE
    /\ backend = "base"

NextBmf ==
    \/ \E mp \in MemsPositions, n \in 1..MaxLocNumber, pos \in 0..MaxAreaPosition,
          bw \in (0..BandUnit) \X (0..BandUnit) : BmfInit(mp, n, pos, bw)
    \/ \E src \in 1..MaxLocNumber : Beamform(src)

SpecBmf == InitBmf /\ [][NextBmf]_vars

\* ---- setters called on an initialised beamformer ----------------------
\* the position of the area, read back from the grid of locations
AreaPosition == bmf.locations[1] - 1 + Len(bmf.locations)

\* setMemsPosition: the geometry is stored (same number of microphones)
SetMemsPosition(mp) ==
    /\ bmf.ready
    /\ Len(mp) = Len(bmf.mems_position)
    /\ mp # bmf.mems_position
    /\ bmf' = [bmf EXCEPT !.mems_position = mp]
    /\ UNCHANGED <<bmf_source, BFE>>
    /\ UNCHANGED <<qvars, rvars, wsvars, wrvars, svars, pvars, h5_rows, req_settings,
                   srv_settings, db_start, db_file_duration, xvars>>

\* moveArea: the position is moved and the locations are built again
MoveArea(delta) ==
    /\ bmf.ready
    /\ AreaPosition + delta \in 0..MaxAreaPosition
    /\ bmf' = [bmf EXCEPT !.locations =
                   build_locations(Len(bmf.locations), AreaPosition + delta)]
    /\ UNCHANGED <<bmf_source, BFE>>
    /\ UNCHANGED <<qvars, rvars, wsvars, wrvars, svars, pvars, h5_rows, req_settings,
                   srv_settings, db_start, db_file_duration, xvars>>

\* init() called again: locations, distances and preformed channels are
\* built from the stored inputs
BmfReinit ==
    /\ bmf.ready
    /\ bmf' = [bmf EXCEPT !.locations =
                   build_locations(Len(bmf.locations), AreaPosition),
                          !.D = DistanceMatrix(bmf.mems_position, bmf.locations)]
    /\ UNCHANGED <<bmf_source, BFE>>
    /\ UNCHANGED <<qvars, rvars, wsvars, wrvars, svars, pvars, h5_rows, req_settings,
                   srv_settings, db_start, db_file_duration, xvars>>

NextSetters ==
    \/ NextBmf
    \/ \E mp \in MemsPositions : SetMemsPosition(mp)
    \/ \E delta \in {-1, 1} : MoveArea(delta)
    \/ BmfReinit

SpecSetters == InitBmf /\ [][NextSetters]_vars

\* ------------------------------------------------------------------------
\* Sessions: two MemsArray instances of one process, each with a producer
\* thread putting numbered frames and a consumer.  self.__signal_q is the
\* attribute of the class until setQueueSize binds a new Queue to the
\* instance.  Inside put, the counter is read when get() returns and
\* written back in a later step (self.__transfert_lost += 1 is a read
\* followed by a write).
\* ------------------------------------------------------------------------
MaxSessionFrames == 2   \* bound: frames produced by one session

SessionIds == {1, 2}

\* object 0 is the Queue of the class, object s the Queue made for session s
QueueObjects == {0} \cup SessionIds

NewQueue(m) == [items |-> <<>>, maxsize |-> m, lost |-> 0]

\* frame k of session s, and the session a frame comes from
FrameOf(s, k) == 2 * (k - 1) + s
Owner(id) == IF id % 2 = 1 THEN 1 ELSE 2

NewSession ==
    [q |-> 0, pc |-> "idle", data |-> 0, putq |-> 0, tmp |-> 0, sent |-> 0,
     received |-> <<>>]

NotSessions ==
    <<qvars, rvars, wsvars, wrvars, svars, pvars, h5_rows, req_settings, srv_settings,
      db_start, db_file_duration, bvars, start_sample, db_content_length, db_chunks>>

\* setQueueSize: a new Queue is bound to the instance
SetQueueSize(s, n) ==
    /\ sessions[s].q = 0
    /\ queues' = [queues EXCEPT ![s] = NewQueue(n)]
    /\ sessions' = [sessions EXCEPT ![s].q = s]
    /\ UNCHANGED <<discards, NotSessions>>

\* self.signal_q.put( frame ), first step: test of the occupation
SessionPutBegin(s) ==
    /\ sessions[s].pc = "idle"
    /\ sessions[s].sent < MaxSessionFrames
    /\ LET o == sessions[s].q
       IN  sessions' = [sessions EXCEPT
                          ![s].pc = IF QueueFull(queues[o].items, queues[o].maxsize)
                                    THEN "evict" ELSE "insert",
                          ![s].data = FrameOf(s, sessions[s].sent + 1),
                          ![s].putq = o,
                          ![s].sent = @ + 1]
    /\ UNCHANGED <<queues, discards, NotSessions>>

\* Queue.put: self.get() returns the oldest frame, the counter is read
SessionPutGet(s) ==
    /\ sessions[s].pc = "evict"
    /\ LET o == sessions[s].putq
       IN  /\ queues[o].items # <<>>
           /\ queues' = [queues EXCEPT ![o].items = QueueGet(@)]
           /\ discards' = discards \cup
                 {[q |-> o, by |-> s, frame |-> Head(queues[o].items)]}
           /\ sessions' = [sessions EXCEPT ![s].pc = "count", ![s].tmp = queues[o].lost]
    /\ UNCHANGED NotSessions

\* Queue.put: the counter is written
SessionPutCount(s) ==
    /\ sessions[s].pc = "count"
    /\ queues' = [queues EXCEPT ![sessions[s].putq].lost = sessions[s].tmp + 1]
    /\ sessions' = [sessions EXCEPT ![s].pc = "insert"]
    /\ UNCHANGED <<discards, NotSessions>>

\* Queue.put: super().put( data )
SessionPutInsert(s) ==
    /\ sessions[s].pc = "insert"
    /\ LET o == sessions[s].putq
       IN  /\ QueueHasRoom(queues[o].items, queues[o].maxsize)
           /\ queues' = [queues EXCEPT ![o].items = Append(@, sessions[s].data)]
    /\ sessions' = [sessions EXCEPT ![s].pc = "idle"]
    /\ UNCHANGED <<discards, NotSessions>>

\* MemsArray.__next__ of session s: self.signal_q.get( timeout ) returns
SessionNext(s) ==
    /\ LET o == sessions[s].q
       IN  /\ queues[o].items # <<>>
           /\ queues' = [queues EXCEPT ![o].items = Tail(@)]
           /\ sessions' = [sessions EXCEPT
                             ![s].received = Append(@, QueueFront(queues[o].items))]
    /\ UNCHANGED <<discards, NotSessions>>

InitSessions ==
    /\ InitQ
    /\ InitR
    /\ InitW
    /\ InitH
    /\ InitS
    /\ InitP
    /\ ws_n = 0
    /\ maxsize = DEFAULT_QUEUE_SIZE
    /\ backend = "base"
    /\ h5_rows = <<>>
    /\ req_settings = NoSettings
    /\ srv_settings = NoSettings
    /\ db_start = 0
    /\ db_file_duration = 0
    /\ InitB
    /\ InitXState
    /\ queues = [o \in QueueObjects |-> NewQueue(DEFAULT_QUEUE_SIZE)]
    /\ sessions = [s \in SessionIds |-> NewSession]
    /\ discards = {}

NextSessions ==
    \E s \in SessionIds :
        \/ \E n \in {0, 1} : SetQueueSize(s, n)
        \/ SessionPutBegin(s)
        \/ SessionPutGet(s)
        \/ SessionPutCount(s)
        \/ SessionPutInsert(s)
        \/ SessionNext(s)

SpecSessions == InitSessions /\ [][NextSessions]_vars

\* ------------------------------------------------------------------------
\* C1 - with capacity N > 0 and one producer the queue never holds more
\* than N frames, and it holds exactly the most recently inserted frames
\* that were neither consumed nor discarded, oldest first.
\* ------------------------------------------------------------------------
C1_BoundedMostRecent ==
    maxsize > 0 =>
        /\ Len(signal_q) <= maxsize
        /\ \A i \in 1..Len(signal_q) : signal_q[i] = inserted - Len(signal_q) + i
        /\ \A i \in 1..Len(signal_q) : \A j \in 1..Len(consumed) : consumed[j] < signal_q[i]

\* a full queue took a new frame: the oldest one was discarded
C1_Witness ==
    /\ maxsize > 0
    /\ Len(signal_q) = maxsize
    /\ transfert_lost > 0
    /\ put_pc[1] = "idle"
    /\ Len(consumed) > 0

\* ------------------------------------------------------------------------
\* C2 - put never leaves the producer waiting on the queue.
\* The producer inside put, about to call self.get(), always finds a frame
\* to discard (otherwise the blocking get never returns: the only thread
\* that inserts is the one waiting).
\* ------------------------------------------------------------------------
C2_PutNeverBlocks == ~(put_pc[1] = "evict" /\ Len(signal_q) = 0)

\* ------------------------------------------------------------------------
\* C3 - once stop() has been called after run() returned, the producer
\* thread of that run eventually terminates (unless a new run is started).
\* The producer left waiting inside put is the case of C2 and is set apart.
\* ------------------------------------------------------------------------
PutBlocked(t) == put_pc[t] = "evict" /\ Len(signal_q) = 0

C3_StopTerminates ==
    (runs = 1 /\ stop_called) ~> (thr_pc[1] = "done" \/ runs > 1 \/ PutBlocked(1))

\* ------------------------------------------------------------------------
\* C4 - once the deadline timer of a run has fired, the producer thread of
\* that run eventually terminates (unless a new run is started).
\* The producer left waiting inside put is the case of C2 and is set apart.
\* ------------------------------------------------------------------------
C4_TimerTerminates ==
    (runs = 1 /\ timer_pc[1] = "fired") ~>
        (thr_pc[1] = "done" \/ runs > 1 \/ PutBlocked(1))

\* ------------------------------------------------------------------------
\* C5 - an exception raised in the producer thread is re-raised by wait():
\* no wait() returns normally while a thread failure is pending.
\* ------------------------------------------------------------------------
C5_ExceptionReraised ==
    (runs = 1 /\ thread_failed /\ handle = 0) => wait_result = "raised"

\* ------------------------------------------------------------------------
\* C6 - at most one producer thread of a session is active at any time.
\* ------------------------------------------------------------------------
C6_OneProducer ==
    Cardinality({t \in Threads : thr_pc[t] \in {"spawned", "loop", "put"}}) <= 1

\* ------------------------------------------------------------------------
\* Remote-live claims
\* ------------------------------------------------------------------------
SeqRange(q) == {q[i] : i \in 1..Len(q)}
FirstFrames(n) == [i \in 1..n |-> i]
Delivered == consumed \o signal_q

\* C7 - scripted sequence greeting ok, run acknowledgment, N binary frames,
\* completed status, no stop request and no eviction: once the thread has
\* ended, the frames delivered to the consumer side are exactly frames
\* 1..N in order, the loop ended on the completed status, no frame was
\* counted as lost and no error is recorded for wait().
C7_ScriptedRunDelivers ==
    (thr_pc[1] = "done" /\ ws_fault = "none" /\ ~stop_called /\ transfert_lost = 0)
        => /\ Delivered = FirstFrames(ws_n)
           /\ ws_outcome = "completed"
           /\ transfer_index = ws_n
           /\ transfer_lost = 0
           /\ thread_exception = "None"
           /\ wait_result # "raised"

C7_Witness ==
    /\ thr_pc[1] = "done"
    /\ ws_fault = "none"
    /\ ~stop_called
    /\ transfert_lost = 0
    /\ ws_n = MaxWsFrames
    /\ consumed = FirstFrames(ws_n)
    /\ wait_result = "ok"

\* C8 - scripted sequence greeting ok, run acknowledgment, error status:
\* once the thread has ended on the server error and wait() has returned,
\* wait() has re-raised the error.
C8_ServerErrorSurfaced ==
    (ws_fault = "run_error" /\ ws_outcome = "error" /\ thr_pc[1] = "done"
        /\ handle = 0 /\ wait_result # "none")
        => wait_result = "raised"

\* C9 (as stated) - every binary frame received after the halt request was
\* sent has been handed to the signal queue.
C9_InFlightFramesQueued ==
    \A k \in halt_rx :
        \/ k \in SeqRange(signal_q)
        \/ k \in SeqRange(consumed)
        \/ k \in evicted
        \/ (put_pc[1] # "idle" /\ put_data[1] = k)

\* C9 (amended) - after the halt request the client keeps receiving until
\* a halt acknowledgment, the completed status or an error; every binary
\* frame received while the running flag is cleared, hence every frame
\* received after the halt request, is counted as lost and never reaches
\* the signal queue.
C9_InFlightFramesDropped ==
    /\ halt_rx \subseteq rx_stopped
    /\ \A k \in rx_stopped :
        /\ k \notin SeqRange(signal_q)
        /\ k \notin SeqRange(consumed)
        /\ k \notin evicted
        /\ ~(put_pc[1] # "idle" /\ put_data[1] = k)
    /\ transfer_lost = Cardinality(rx_stopped)
    /\ (halt_registered /\ thr_pc[1] = "done" /\ ws_fault = "none")
          => ws_outcome \in {"halted", "completed"}
    /\ (halt_registered /\ thr_pc[1] # "done") => thr_pc[1] \in {"loop", "recv"}

C9_Witness ==
    /\ halt_registered
    /\ halt_rx # {}
    /\ thr_pc[1] = "done"
    /\ ws_outcome = "halted"
    /\ transfer_index > 0

\* ------------------------------------------------------------------------
\* Container claims
\* ------------------------------------------------------------------------
RECURSIVE DatasetsUpTo(_)
DatasetsUpTo(n) == IF n = 0 THEN <<>> ELSE DatasetsUpTo(n - 1) \o h5_files[n]

RECURSIVE Flatten(_)
Flatten(ds) == IF ds = <<>> THEN <<>> ELSE Head(ds) \o Flatten(Tail(ds))


\* C10 - once a recording of K frames of L samples (L <= D) is stopped, the
\* files hold ceil(K*L / D) datasets, their concatenation in time order is
\* the K*L-sample signal, and the root attributes channels_number,
\* sampling_frequency and dataset_length of every file equal the session
\* configuration.
C10_ContainerRoundTrip ==
    (~h5_started /\ h5_current_file # 0) =>
        /\ Len(DatasetsUpTo(MaxClock))
              = CeilDiv(frames_written * frame_length, h5_dataset_length)
        /\ Flatten(DatasetsUpTo(MaxClock)) = FirstFrames(frames_written * frame_length)
        /\ \A n \in FileNames :
              h5_attrs[n].created =>
                 /\ h5_attrs[n].channels_number
                       = channels_number(mems_number, counter, counter_skip, status)
                 /\ h5_attrs[n].sampling_frequency = sampling_frequency
                 /\ h5_attrs[n].dataset_length = h5_dataset_duration * sampling_frequency

\* ------------------------------------------------------------------------
\* Rotation claims
\* ------------------------------------------------------------------------
CreatedFiles == {n \in FileNames : h5_attrs[n].created}

\* C11 - once a recording has created dataset_number + 1 datasets, exactly
\* two container files exist, the first one opened holds dataset_number
\* datasets and the second one holds 1; at any time no file holds more
\* than dataset_number datasets.
C11_RotationTwoFiles ==
    /\ (h5_current_file # 0 /\ Len(h5_flushed) = h5_dataset_number + 1) =>
          /\ Cardinality(CreatedFiles) = 2
          /\ Len(h5_opened) = 2
          /\ Len(h5_files[h5_opened[1]]) = h5_dataset_number
          /\ Len(h5_files[h5_opened[2]]) = 1
    /\ h5_current_file # 0 =>
          \A n \in FileNames : Len(h5_files[n]) <= h5_dataset_number

\* C12 - every dataset created so far is still in the files, unchanged and
\* in creation order, and the file names opened by the recording are
\* pairwise distinct.
C12_NeverRewrites ==
    /\ DatasetsUpTo(MaxClock) = h5_flushed
    /\ \A i, j \in 1..Len(h5_opened) : i # j => h5_opened[i] # h5_opened[j]

\* ------------------------------------------------------------------------
\* Settings claims
\* ------------------------------------------------------------------------
\* C13 - a run() call that raises on its settings starts no producer thread
\* and no timer: thread positions, timers, thread handle, timer flag and
\* running flag are what they were before the call.
C13_FailedRunStartsNothing ==
    [][call_result' = "raised"
         => UNCHANGED <<thr_pc, timer_pc, handle, thread_timer_flag, running>>]_vars

C13_Witness ==
    /\ call_result = "raised"
    /\ duration = 1
    /\ Len(mems) = 0
    /\ runs > 0
    /\ \A t \in Threads : thr_pc[t] = "none" /\ timer_pc[t] = "none"

\* ------------------------------------------------------------------------
\* C14 - once an error has ended the producer thread of the only run, and
\* wait() has not been called yet, the running flag is false.
\* ------------------------------------------------------------------------
C14_RunningFalseAfterError ==
    (runs = 1 /\ thr_pc[1] = "done" /\ thread_failed /\ handle = 1) => ~running

\* ------------------------------------------------------------------------
\* Replay claims
\* ------------------------------------------------------------------------
\* C15 - with loop mode off and an unbounded duration, the replay ends on
\* its own after the last file: no file of the list is opened a second
\* time, and once the last file has ended the thread does not go back to
\* the file list.
C15_ReplayCompletes ==
    ~loop =>
        /\ \A i, j \in 1..Len(opened_files) : i # j => opened_files[i] # opened_files[j]
        /\ (thr_pc[1] = "open" /\ ~stop_called) => Len(opened_files) < files_number

\* ------------------------------------------------------------------------
\* Consumer claims
\* ------------------------------------------------------------------------
\* C16 - the frames returned to the consumer are frames the source
\* produced, in strictly increasing source order: a subsequence of the
\* produced sequence, without reordering or duplication.
C16_ConsumedSubsequence ==
    /\ \A i \in 1..Len(consumed) : consumed[i] \in 1..produced
    /\ \A i, j \in 1..Len(consumed) : i < j => consumed[i] < consumed[j]

\* frames 1 and 3 were returned, frame 2 was discarded in between
C16_Witness ==
    /\ Len(consumed) >= 2
    /\ consumed[2] > consumed[1] + 1
    /\ transfert_lost > 0

\* C17 - a step of the consumer that returns a frame returns the oldest
\* queued frame and removes it; a step that signals the end of the stream
\* happens on an empty queue only.
C17_NextOldestOrStop ==
    [][/\ consumed' # consumed =>
            /\ Len(signal_q) > 0
            /\ consumed' = Append(consumed, Head(signal_q))
            /\ signal_q' = Tail(signal_q)
       /\ (last_next' = "stop" /\ last_next # "stop") => Len(signal_q) = 0]_vars

\* the stream ended after frames were returned, one after a discarded frame
C17_Witness ==
    /\ last_next = "stop"
    /\ Len(consumed) >= 2
    /\ Len(signal_q) = 0
    /\ evicted # {}

\* ------------------------------------------------------------------------
\* Channel claims
\* ------------------------------------------------------------------------
\* C18 - whatever setters were called, every active microphone is an
\* available microphone and every active analog channel is an available
\* analog channel.
C18_ActiveSubsetAvailable ==
    /\ RangeOf(mems) \subseteq RangeOf(available_mems)
    /\ RangeOf(analogs) \subseteq RangeOf(available_analogs)

\* C19 - activating a list twice gives the configuration of activating it
\* once, the active microphones are kept in activation order, and the rows
\* of a replayed buffer are the active microphones in activation order.
C19_MaskingKeepsOrder ==
    (call_result = "ok" /\ frame_columns # <<>>) => frame_columns = mems

\* ------------------------------------------------------------------------
\* C20 - when the processing of a received frame raises (container write
\* failure), the run ends and, once wait() has returned, wait() has
\* re-raised the failure.
\* ------------------------------------------------------------------------
C20_WriteFailureSurfaced ==
    (ws_fault = "process" /\ thr_pc[1] = "done" /\ handle = 0 /\ wait_result # "none")
        => wait_result = "raised"

\* ------------------------------------------------------------------------
\* C29 - the n-th dataset flushed by a recording holds the dataset_length
\* samples that follow those of the (n-1)-th one, and its ts attribute is
\* the time of its first sample.
\* ------------------------------------------------------------------------
C29_DatasetsContiguous ==
    /\ Len(h5_ts) = Len(h5_flushed)
    /\ \A n \in 1..Len(h5_flushed) :
          /\ h5_flushed[n] = [i \in 1..h5_dataset_length |->
                                 (n - 1) * h5_dataset_length + i]
          /\ h5_ts[n] = (n - 1) * h5_dataset_length

\* ------------------------------------------------------------------------
\* Frame claims
\* ------------------------------------------------------------------------
\* C21 - when recording is enabled, every frame pushed into the signal
\* queue by the producer has also been handed to the container writer.
C21_PushedFramesRecorded ==
    (h5_recording /\ ~h5_pass_through) => frames_written = produced

\* C24 - every item delivered by the remote-live client comes from a frame
\* of exactly frame_length x channels_number 32-bit words, whatever the
\* datatype and whether or not recording is on.
C24_FrameLengthValidated ==
    backend = "ws" =>
        \A i \in 1..Len(signal_q) :
            signal_q[i].words
              = frame_length * channels_number(mems_number, counter, counter_skip, status)

\* C27 - every item queued by the synthetic generator is a frame buffer of
\* frame_length samples for each of the channels_number channels, in the
\* requested datatype; it is never an empty or null item.
C27_SyntheticItemsAreFrames ==
    backend = "base" =>
        \A i \in 1..Len(signal_q) :
            /\ signal_q[i].kind # "None"
            /\ signal_q[i].words
                 = frame_length * channels_number(mems_number, counter, counter_skip, status)
            /\ signal_q[i].dtype = (IF datatype \in {"int32", "bint32"}
                                    THEN "int32" ELSE "float32")
            /\ signal_q[i].kind = (IF datatype \in {"int32", "float32"}
                                   THEN "array" ELSE "bytes")

\* C30 - with the counter on and skipped, the rows saved by the synthetic
\* generator are one per active microphone, then the status if enabled,
\* and no counter row.
C30_OnlyCounterStripped ==
    (backend = "base" /\ counter /\ counter_skip /\ frames_written > 0) =>
        h5_rows = [i \in 1..mems_number |-> Channel("mem", i - 1)]
                    \o (IF status THEN <<Channel("status", 0)>> ELSE <<>>)

\* ------------------------------------------------------------------------
\* C25 - for the file-replay and database-replay backends, a setter call
\* or a constructor/run() keyword that asks for a sampling frequency or a
\* counter presence without the override flag leaves the sampling
\* frequency, the frame duration and the counter flag unchanged.
\* ------------------------------------------------------------------------
C25_FixedSettingsIgnored ==
    [][(backend \in {"h5", "db"} /\ UnforcedRequest)
          => UNCHANGED <<sampling_frequency, frame_duration, counter>>]_vars

C25_Witness ==
    /\ backend \in {"h5", "db"}
    /\ call_result = "ignored"
    /\ sampling_frequency = MaxSamplingFrequency
    /\ counter

\* ------------------------------------------------------------------------
\* C26 - a database-replay run whose range [start, start+duration) goes
\* beyond the end of the source file fails with an error that wait()
\* raises to the caller, and a range that ends within the file or exactly
\* at its end is accepted.
\* ------------------------------------------------------------------------
C26_RangeChecked ==
    runs = 1 =>
        /\ (db_start + duration > db_file_duration /\ wait_result # "none")
              => wait_result = "raised"
        /\ (db_start + duration <= db_file_duration /\ thr_pc[1] # "spawned")
              => ~thread_failed

\* ------------------------------------------------------------------------
\* Job claims (SpecJobs)
\* ------------------------------------------------------------------------
\* settings of the session when run() is called
ConstructedSettings == [sampling_frequency |-> 1, frame_length |-> 1]

\* C22 - when the job of the session is listen, the frame length and the
\* sampling frequency given to run() are not installed, so the request
\* sent to the server carries the values the session had before the call;
\* once the acknowledgment has been received with the settings of the
\* master, the frame length and sampling frequency of the session are the
\* ones the server reported.
C22_ListenSettingsFromServer ==
    job = "listen" =>
        /\ req_settings # NoSettings => req_settings = ConstructedSettings
        /\ (thr_pc[1] \in {"loop", "recv", "put"} /\ srv_settings # NoSettings)
              => /\ sampling_frequency = srv_settings.sampling_frequency
                 /\ frame_length = srv_settings.frame_length

\* C23 - for job master the producer thread never enters the listening
\* loop: it ends when the acknowledgment is received, no frame is pushed
\* into the signal queue and the running flag is never set.
C23_MasterNeverAttaches ==
    job = "master" =>
        /\ thr_pc[1] \in {"none", "spawned", "greeting", "ack", "done"}
        /\ ~running
        /\ produced = 0
        /\ signal_q = <<>>

\* the master job was acknowledged, the thread has ended and was joined
\* while the server streamed a frame
C23_Witness ==
    /\ job = "master"
    /\ ws_outcome = "master"
    /\ thr_pc[1] = "done"
    /\ srv_sent = ws_n
    /\ wait_result = "ok"

\* ------------------------------------------------------------------------
\* Beamformer claim (SpecBmf)
\* ------------------------------------------------------------------------
NonNegative(e) == ~e.nan /\ (e.num = 0 \/ e.den > 0)

\* a > b, for energies of one output
Greater(a, b) == ~a.nan /\ ~b.nan /\ a.den > 0 /\ b.den > 0 /\ a.num * b.den > b.num * a.den

\* C28 - for the window of a point source at a location of the grid, the
\* output has one energy per location, every energy is non-negative, and
\* the energy at the location of the source is greater than the energy at
\* every other location.
C28_SourceIsUniqueMaximum ==
    bmf_source # 0 =>
        /\ Len(BFE) = Len(bmf.locations)
        /\ \A s \in 1..Len(BFE) : NonNegative(BFE[s])
        /\ \A s \in 1..Len(BFE) : s # bmf_source => Greater(BFE[bmf_source], BFE[s])

\* ------------------------------------------------------------------------
\* Writer accumulation (SpecWriter)
\* ------------------------------------------------------------------------
\* C40 - once a frame has been written, the write offset of the buffer is
\* at least 0 and less than the dataset length, and the samples written so
\* far are the datasets saved, in all the files, plus the offset.
C40_WriterAccumulates ==
    frames_written > 0 =>
        /\ 0 <= h5_buffer_index
        /\ h5_buffer_index < h5_dataset_length
        /\ frames_written * frame_length
              = Len(h5_flushed) * h5_dataset_length + h5_buffer_index

\* two files opened, datasets saved, and a frame that ended a dataset
\* exactly
C40_Witness ==
    /\ Len(h5_opened) >= 2
    /\ Len(h5_flushed) >= 2
    /\ h5_buffer_index = 0
    /\ frame_length < h5_dataset_length

\* ------------------------------------------------------------------------
\* Session claims (SpecSessions)
\* ------------------------------------------------------------------------
\* frames removed by put from queue o
Discarded(o) == {d \in discards : d.q = o}

\* C34 - for every queue, whenever no put is between its get() and the
\* update of the counter, the lost-frame counter is the number of frames
\* put has removed from the queue; a queue of capacity 0 loses nothing and
\* its counter stays 0.
C34_LostCounterExact ==
    \A o \in QueueObjects :
        /\ (\A s \in SessionIds : ~(sessions[s].pc = "count" /\ sessions[s].putq = o))
              => queues[o].lost = Cardinality(Discarded(o))
        /\ queues[o].maxsize = 0 => (queues[o].lost = 0 /\ Discarded(o) = {})

\* C36 - while no session has called setQueueSize, a consumer only
\* receives frames of its own session, and put only removes frames of the
\* session that puts.
C36_SessionsIsolated ==
    (\A s \in SessionIds : sessions[s].q = 0) =>
        /\ \A s \in SessionIds : \A i \in 1..Len(sessions[s].received) :
              Owner(sessions[s].received[i]) = s
        /\ \A d \in discards : Owner(d.frame) = d.by

\* ------------------------------------------------------------------------
\* File replay as a stream
\* ------------------------------------------------------------------------
FileSamples == file_dataset_number * file_dataset_length

IsPadding(x) == x[2] = 0

AllPadding(fr) == \A i \in 1..Len(fr) : IsPadding(fr[i])

\* the emitted frames laid end to end
StreamLength == Len(frames_log) * frame_length

StreamAt(j) == frames_log[(j - 1) \div frame_length + 1][((j - 1) % frame_length) + 1]

\* x is the first sample replayed of some file
AtCursor(x) == x[2] = start_sample + 1

\* y may come right after x in the stream of one file; at the end of a
\* frame the stream of the next file may begin once the data of the file
\* is exhausted
Continues(x, y, frame_end) ==
    IF IsPadding(x)
    THEN IF frame_end THEN AtCursor(y) ELSE y = x
    ELSE IF x[2] < FileSamples
    THEN y = <<x[1], x[2] + 1>>
    ELSE \/ y = <<x[1], 0>>
         \/ frame_end /\ AtCursor(y)

C39_FrameCount ==
    (start_sample = 0 /\ Len(opened_files) = 1 /\ file_endeed) =>
        /\ Len(frames_log) = CeilDiv(FileSamples, frame_length)
        /\ FileSamples % frame_length = 0 =>
              \A k \in 1..Len(frames_log) : ~AllPadding(frames_log[k])

\* C35 - after run(duration > 0), the end of that run without an error,
\* wait(), and a new run() on the same session, the firing of the timer armed by the first
\* run leaves the running flag of the second run as it is
C35_TimerOfItsRunOnly ==
    [][(/\ runs = 2
        /\ ~thread_failed
        /\ wait_result = "ok"
        /\ thr_pc[1] = "done"
        /\ thr_pc[2] # "done"
        /\ timer_pc[1] = "armed"
        /\ timer_pc'[1] = "fired")
          => running' = running]_vars

\* a halt request is appended to the messages of the client
HaltSent == Len(ws_out') = Len(ws_out) + 1 /\ ws_out'[Len(ws_out')] = "halt"

\* C38 - during one remote-live run a halt request is sent only in a step
\* that finds the running flag false and no halt sent yet, and that records
\* the halt as sent for the rest of the run, hence at most once; a run that
\* ends on the completed status of the server with the flag still true has
\* sent no halt request
C38_HaltAtMostOnce ==
    [][/\ HaltSent => (~running /\ ~halt_registered /\ halt_registered')
       /\ halt_registered => halt_registered'
       /\ halt_registered' /\ ~halt_registered => HaltSent
       /\ (ws_outcome' = "completed" /\ running') => ~halt_registered']_vars

\* the flag was cleared during the stream, the halt request was sent and
\* taken by the server, and the run ended
C38_Witness ==
    /\ halt_registered
    /\ ~running
    /\ ws_out = <<>>
    /\ thr_pc[1] = "done"
    /\ ws_outcome \in {"completed", "halted"}

\* C37 - once the running flag of a remote-live session in its transfer
\* loop has been cleared, a halt request is eventually sent (or the run has
\* ended before), whatever the server does, silence included
C37_HaltEventuallySent ==
    (thr_pc[1] \in {"loop", "recv", "put"} /\ ~running)
        ~> (halt_registered \/ thr_pc[1] = "done")

\* C32 - at every beamform call the distances behind the steering matrix
\* are those of the microphone geometry and of the locations of the area
\* as they are set at the time of the call
C32_SteeringFromCurrentInputs ==
    [][(BFE' # BFE \/ bmf_source' # bmf_source)
          => bmf.D = DistanceMatrix(bmf.mems_position, bmf.locations)]_vars

\* C33 - a response of the database whose content length, taken modulo the
\* chunk size frame_length x channels x 4, is not a whole number of channel
\* rows of channels x 4 bytes is refused before the loop: the thread ends,
\* the running flag is not set, no chunk is taken from the response and the
\* queue holds no frame
C33_BadLengthRejected ==
    (/\ db_content_length # NoContent
     /\ DbRow > 0
     /\ (db_content_length % DbChunkSize) % DbRow # 0)
        => /\ thr_pc[1] = "done"
           /\ ~running
           /\ db_chunks = 0
           /\ put_pc[1] = "idle"
           /\ signal_q = <<>>

\* a response of a whole number of chunks plus a piece of a row was answered
\* to an accepted range, with a good HTTP status or not
C33_Witness ==
    /\ db_content_length > DbChunkSize
    /\ DbRow > 0
    /\ (db_content_length % DbChunkSize) % DbRow # 0
    /\ thr_pc[1] = "done"
    /\ signal_q = <<>>

====
